---- MODULE Spec2Model ----
(***************************************************************************)
(* A model of fsdb: the file-backed B+ tree (btree.go), the IndexManager   *)
(* that owns one tree per index (index_manager.go), the Collection that    *)
(* coordinates a clustered index, a secondary index and the inverted       *)
(* index, and the n-gram tokenizer.                                        *)
(*                                                                         *)
(* Scalars are tagged values [t |-> type, v |-> value]; a string is the    *)
(* sequence of its code points.  Node identifiers are natural numbers      *)
(* (the code draws random 16-character strings), 0 stands for "".          *)
(***************************************************************************)
EXTENDS Integers, Sequences, FiniteSets, TLC

VARIABLES
    im,       \* the IndexManager driven directly (index-level operations)
    live,     \* ghost: key value |-> values inserted and not deleted, FIFO
    coll,     \* the Collection: clustered + secondary IndexManager, inverted index
    rows,     \* ghost: the rows a Collection caller inserted and did not delete
    last,     \* the last operation: name, arguments, returned error and result
    crashed,  \* TRUE once an operation ended in a run-time panic
    handles,  \* the Collection handles separate GetCollection calls returned
    txn,      \* the Collection.Update in progress on coll: its position and arguments
    observed, \* what the last SearchFullText of the reader returned, and when
    db,       \* the Database: collection directories, schema files, cached collections
    mu,       \* the reader/writer lock db.mu
    pc,       \* per thread: the Database operation it runs and its position in it
    call,     \* the last call of a pure function: its arguments and its result
    inverted, \* an InvertedIndex used on its own, and the last call made on it
    cim       \* a ClusteredIndexManager used on its own, and the last call made on it

vars == <<im, live, coll, rows, last, crashed, handles, txn, observed, db, mu, pc, call, inverted, cim>>

\* what the operations on one index or on one collection handle leave alone
elsewhere == <<handles, txn, observed, db, mu, pc, call, inverted, cim>>

-----------------------------------------------------------------------------
(* Bounds of the model *)

MaxKey == 3        \* integer key values 1..MaxKey
MaxNodes == 5      \* node files one index directory holds
MaxBuild == 3      \* rows handed to one Build call
MaxLive == 4       \* pairs one index holds
MaxDoc == 2        \* article ids 1..MaxDoc
MaxFreq == 1       \* frequency a posting list records for one document

-----------------------------------------------------------------------------
(* Scalars, strings and JSON *)

NoID == 0
PageSize == 3

IntV(n) == [t |-> "int", v |-> n]
FloatV(n) == [t |-> "float", v |-> n]
StrV(s) == [t |-> "str", v |-> s]
NilV == [t |-> "nil", v |-> 0]

\* lexicographic comparison of two strings (Go's < on strings): -1, 0 or 1
RECURSIVE StrCmp(_, _)
StrCmp(a, b) ==
    IF a = <<>> THEN (IF b = <<>> THEN 0 ELSE -1)
    ELSE IF b = <<>> THEN 1
    ELSE IF Head(a) < Head(b) THEN -1
    ELSE IF Head(a) > Head(b) THEN 1
    ELSE StrCmp(Tail(a), Tail(b))

\* decimal digits of a natural number, as code points
RECURSIVE Digits(_)
Digits(n) == IF n < 10 THEN <<48 + n>> ELSE Digits(n \div 10) \o <<48 + (n % 10)>>

\* fmt.Sprintf("%v", x) for the scalar kinds of the model
FmtV(x) ==
    CASE x.t = "int" -> IF x.v < 0 THEN <<45>> \o Digits(0 - x.v) ELSE Digits(x.v)
      [] x.t = "float" -> IF x.v < 0 THEN <<45>> \o Digits(0 - x.v) ELSE Digits(x.v)
      [] x.t = "str" -> x.v
      [] OTHER -> <<60, 110, 105, 108, 62>>

\* fmt.Sprintf("%#v", x): a string is quoted, nil prints as <nil>
GoSyntax(x) == IF x.t = "str" THEN <<34>> \o x.v \o <<34>> ELSE FmtV(x)

\* encoding/json round trip into `any`: every number comes back as float64
JSONScalar(x) == IF x.t = "int" THEN FloatV(x.v) ELSE x
JSONKey(k) == [i \in DOMAIN k |-> JSONScalar(k[i])]
JSONRow(r) == [f \in DOMAIN r |-> JSONScalar(r[f])]

-----------------------------------------------------------------------------
(* compareKeys *)

\* a local variable of the code: v is computed once and Body reads it
Bind(v, Body(_)) == Body(v)

Sign3(a, b) == IF a < b THEN -1 ELSE IF a > b THEN 1 ELSE 0

\* one component of compareKeys: the type switch
compareComponent(av, bv) ==
    CASE av.t \in {"int", "float"} ->
            IF bv.t \in {"int", "float"} THEN Sign3(av.v, bv.v) ELSE 0
      [] av.t = "str" ->
            IF bv.t = "str" THEN StrCmp(av.v, bv.v) ELSE 0
      [] OTHER -> StrCmp(GoSyntax(av), GoSyntax(bv))

RECURSIVE compareKeysFrom(_, _, _)
compareKeysFrom(a, b, i) ==
    IF i > Len(a) \/ i > Len(b) THEN Len(a) - Len(b)
    ELSE Bind(compareComponent(a[i], b[i]),
              LAMBDA c : IF c # 0 THEN c ELSE compareKeysFrom(a, b, i + 1))

compareKeys(a, b) == compareKeysFrom(a, b, 1)

-----------------------------------------------------------------------------
(* Nodes and node storage *)

NewBTreeNode(id, nodeType, pageSize) ==
    [ID |-> id, Type |-> nodeType, IsDirty |-> TRUE, PageSize |-> pageSize,
     Parent |-> NoID, Keys |-> <<>>, Values |-> <<>>, Next |-> NoID, Previous |-> NoID]

IsLeaf(n) == n.Type = "leaf"
IsFull(n) == Len(n.Keys) >= n.PageSize

\* the file content of a node: IsDirty is not persisted, numbers become float64
NodeFile(n) ==
    [n EXCEPT !.IsDirty = FALSE,
              !.Keys = [i \in DOMAIN n.Keys |-> JSONKey(n.Keys[i])],
              !.Values = IF IsLeaf(n) THEN [i \in DOMAIN n.Values |-> JSONRow(n.Values[i])]
                         ELSE n.Values]

\* SaveNode writes the file only when the node is dirty
SaveNode(st, n) ==
    IF ~n.IsDirty THEN st
    ELSE [id \in DOMAIN st \cup {n.ID} |-> IF id = n.ID THEN NodeFile(n) ELSE st[id]]

\* the in-memory node after SaveNode returned
Saved(n) == [n EXCEPT !.IsDirty = FALSE]

CanLoad(st, id) == id \in DOMAIN st
LoadNode(st, id) == st[id]

EmptyStorage == [id \in {} |-> 0]

\* leaves of a leaf chain written to a directory by hand
MaxChain == 3

\* components of one composite key handed to compareKeys on its own
MaxComp == 2

\* NewBTree called with the declared unique flag of the index, which no index of
\* the model sets, in place of IsClustered
NewBTreeDeclaredUnique(st, rootID, pageSize, isUniqueKey, ids) ==
    [st |-> st, rootID |-> rootID, pageSize |-> pageSize, isUniqueKey |-> FALSE,
     ids |-> ids]

NewBTree(st, rootID, pageSize, isUniqueKey, ids) ==
    [st |-> st, rootID |-> rootID, pageSize |-> pageSize, isUniqueKey |-> isUniqueKey,
     ids |-> ids]

\* slice helpers: s[:n], s[n:], insertion and removal at a 0-based position
Take(s, n) == SubSeq(s, 1, n)
Drop(s, n) == SubSeq(s, n + 1, Len(s))
InsertAt(s, pos, x) == Take(s, pos) \o <<x>> \o Drop(s, pos)
RemoveAt(s, pos) == Take(s, pos) \o Drop(s, pos + 1)

-----------------------------------------------------------------------------
(* BTree.Search *)

\* for pos < len(keys) && compareKeys(key, keys[pos]) > 0 { pos++ }   (0-based result)
RECURSIVE PosGreaterFrom(_, _, _)
PosGreaterFrom(keys, key, pos) ==
    IF pos < Len(keys) /\ compareKeys(key, keys[pos + 1]) > 0
    THEN PosGreaterFrom(keys, key, pos + 1) ELSE pos
PosGreater(keys, key) == PosGreaterFrom(keys, key, 0)

\* for pos < len(keys) && compareKeys(key, keys[pos]) >= 0 { pos++ }  (0-based result)
RECURSIVE PosGreaterEqFrom(_, _, _)
PosGreaterEqFrom(keys, key, pos) ==
    IF pos < Len(keys) /\ compareKeys(key, keys[pos + 1]) >= 0
    THEN PosGreaterEqFrom(keys, key, pos + 1) ELSE pos
PosGreaterEq(keys, key) == PosGreaterEqFrom(keys, key, 0)

\* the child position Search and Delete descend to: strict upper bound, clamped
Clamp(pos, n) == IF pos >= n THEN n - 1 ELSE pos
SearchChildPos(node, key) == Clamp(PosGreaterEq(node.Keys, key), Len(node.Values))

\* the child position Insert and Update descend to: no clamp
InsertChildPos(node, key) == PosGreater(node.Keys, key)

\* descent of Search(nil): always the first child
RECURSIVE leftmostLeaf(_, _)
leftmostLeaf(st, node) ==
    IF IsLeaf(node) THEN [err |-> "ok", node |-> node]
    ELSE IF Len(node.Values) = 0 THEN [err |-> "panic", node |-> node]
    ELSE IF ~CanLoad(st, node.Values[1]) THEN [err |-> "io", node |-> node]
    ELSE leftmostLeaf(st, LoadNode(st, node.Values[1]))

\* the leaf walk without the visited check, cut off once it has gathered more
\* values than MaxChain leaves hold
RECURSIVE walkLeavesRevisiting(_, _, _, _)
walkLeavesRevisiting(st, node, visited, results) ==
    IF Len(results) > MaxChain THEN results
    ELSE LET res2 == results \o node.Values
         IN IF node.Next = NoID \/ ~CanLoad(st, node.Next) THEN res2
            ELSE walkLeavesRevisiting(st, LoadNode(st, node.Next), visited, res2)

\* the leaf walk of Search(nil): follows Next, stops at a visited or missing leaf
RECURSIVE walkLeaves(_, _, _, _)
walkLeaves(st, node, visited, results) ==
    IF node.ID \in visited THEN results
    ELSE LET res2 == results \o node.Values
         IN IF node.Next = NoID \/ ~CanLoad(st, node.Next) THEN res2
            ELSE walkLeaves(st, LoadNode(st, node.Next), visited \cup {node.ID}, res2)

\* descent of Search(key) for a non-nil key
RECURSIVE searchLeaf(_, _, _)
searchLeaf(st, node, key) ==
    IF IsLeaf(node) THEN [err |-> "ok", node |-> node]
    ELSE Bind(SearchChildPos(node, key), LAMBDA pos :
            IF pos < 0 THEN [err |-> "panic", node |-> node]
            ELSE IF ~CanLoad(st, node.Values[pos + 1]) THEN [err |-> "io", node |-> node]
            ELSE searchLeaf(st, LoadNode(st, node.Values[pos + 1]), key))

\* the values of a leaf whose key equals key, in leaf order
RECURSIVE matchesFrom(_, _, _)
matchesFrom(node, key, i) ==
    IF i > Len(node.Keys) THEN <<>>
    ELSE (IF compareKeys(key, node.Keys[i]) = 0 THEN <<node.Values[i]>> ELSE <<>>)
         \o matchesFrom(node, key, i + 1)

NilKey == <<>>

Search(bt, key) ==
    IF bt.rootID = NoID THEN [res |-> <<>>, err |-> "ok"]
    ELSE IF ~CanLoad(bt.st, bt.rootID) THEN [res |-> <<>>, err |-> "io"]
    ELSE IF key = NilKey THEN
        Bind(leftmostLeaf(bt.st, LoadNode(bt.st, bt.rootID)), LAMBDA d :
            IF d.err # "ok" THEN [res |-> <<>>, err |-> d.err]
            ELSE [res |-> walkLeaves(bt.st, d.node, {}, <<>>), err |-> "ok"])
    ELSE
        Bind(searchLeaf(bt.st, LoadNode(bt.st, bt.rootID), key), LAMBDA d :
            IF d.err # "ok" THEN [res |-> <<>>, err |-> d.err]
            ELSE [res |-> matchesFrom(d.node, key, 1), err |-> "ok"])

-----------------------------------------------------------------------------
(* BTree.Insert *)

Ret(bt, err, node) == [bt |-> bt, err |-> err, node |-> node]

WithStorage(bt, st) == [bt EXCEPT !.st = st]

\* walk Previous pointers back to the leftmost leaf (splitLeaf, new-root branch)
RECURSIVE leftmostInChain(_, _)
leftmostInChain(st, current) ==
    IF current.Previous # NoID /\ CanLoad(st, current.Previous)
    THEN leftmostInChain(st, LoadNode(st, current.Previous)) ELSE current

\* gather the leaves from current along Next pointers
RECURSIVE gatherLeaves(_, _, _)
gatherLeaves(st, current, acc) ==
    IF current.Next = NoID \/ ~CanLoad(st, current.Next) THEN Append(acc, current)
    ELSE gatherLeaves(st, LoadNode(st, current.Next), Append(acc, current))

\* the loop that fills the new root: child ids, first keys, parent pointers
RECURSIVE linkLeaves(_, _, _, _)
linkLeaves(st, root, leaves, i) ==
    IF i > Len(leaves) THEN [st |-> st, root |-> root, err |-> "ok"]
    ELSE Bind(leaves[i], LAMBDA n :
            IF i > 1 /\ Len(n.Keys) = 0 THEN [st |-> st, root |-> root, err |-> "panic"]
            ELSE linkLeaves(SaveNode(st, [n EXCEPT !.Parent = root.ID]),
                            [root EXCEPT !.Values = Append(@, n.ID),
                                         !.Keys = IF i > 1 THEN Append(@, n.Keys[1]) ELSE @],
                            leaves, i + 1))

RECURSIVE insertInternalAfterSplit(_, _, _, _)
RECURSIVE splitInternal(_, _)

splitInternal(bt, internal) ==
    LET mid == Len(internal.Keys) \div 2
        rid == bt.ids + 1
        promoteKey == internal.Keys[mid + 1]
    IN Bind([NewBTreeNode(rid, "internal", bt.pageSize) EXCEPT
                !.Keys = Drop(internal.Keys, mid + 1),
                !.Values = Drop(internal.Values, mid + 1)], LAMBDA right :
       Bind([internal EXCEPT !.Keys = Take(@, mid), !.Values = Take(@, mid + 1)], LAMBDA left :
       Bind([bt EXCEPT !.st = SaveNode(SaveNode(bt.st, left), right), !.ids = rid], LAMBDA bt2 :
       IF internal.Parent = NoID THEN
           Bind([NewBTreeNode(rid + 1, "internal", bt.pageSize) EXCEPT
                    !.Keys = <<promoteKey>>, !.Values = <<internal.ID, rid>>], LAMBDA root :
               Ret([bt2 EXCEPT !.st = SaveNode(@, root), !.rootID = rid + 1, !.ids = rid + 1],
                   "ok", [Saved(left) EXCEPT !.Parent = rid + 1]))
       ELSE IF ~CanLoad(bt2.st, internal.Parent) THEN Ret(bt2, "io", Saved(left))
       ELSE Bind(insertInternalAfterSplit(bt2, LoadNode(bt2.st, internal.Parent),
                                          promoteKey, rid), LAMBDA r :
               Ret(r.bt, r.err, Saved(left))))))

insertInternalAfterSplit(bt, parent, key, rightID) ==
    Bind(PosGreater(parent.Keys, key), LAMBDA pos :
       IF pos + 1 > Len(parent.Values) THEN Ret(bt, "panic", parent)
       ELSE Bind([parent EXCEPT !.Keys = InsertAt(@, pos, key),
                                !.Values = InsertAt(@, pos + 1, rightID),
                                !.IsDirty = TRUE], LAMBDA p2 :
               IF ~IsFull(p2) THEN Ret(WithStorage(bt, SaveNode(bt.st, p2)), "ok", Saved(p2))
               ELSE splitInternal(bt, p2)))

\* splitLeaf when the leaf after the split one keeps its previous pointer
splitLeafOneWay(bt, leaf) ==
    LET mid == Len(leaf.Keys) \div 2
        rid == bt.ids + 1
    IN Bind([NewBTreeNode(rid, "leaf", bt.pageSize) EXCEPT
                !.Keys = Drop(leaf.Keys, mid), !.Values = Drop(leaf.Values, mid),
                !.Next = leaf.Next, !.Previous = leaf.ID, !.Parent = leaf.Parent], LAMBDA right :
       Bind(bt.st, LAMBDA st1 :
       Bind([leaf EXCEPT !.Keys = Take(@, mid), !.Values = Take(@, mid),
                         !.Next = rid, !.IsDirty = TRUE], LAMBDA left :
       Bind([bt EXCEPT !.st = SaveNode(SaveNode(st1, left), right), !.ids = rid], LAMBDA bt3 :
       IF leaf.Parent = NoID THEN
           Bind(linkLeaves(bt3.st, NewBTreeNode(rid + 1, "internal", bt.pageSize),
                           gatherLeaves(bt3.st, leftmostInChain(bt3.st, Saved(left)), <<>>),
                           1), LAMBDA lk :
               IF lk.err # "ok"
               THEN Ret([bt3 EXCEPT !.st = lk.st, !.ids = rid + 1], lk.err, Saved(left))
               ELSE Ret([bt3 EXCEPT !.st = SaveNode(lk.st, lk.root), !.ids = rid + 1,
                                    !.rootID = rid + 1],
                        "ok", Saved(left)))
       ELSE IF ~CanLoad(bt3.st, leaf.Parent) THEN Ret(bt3, "io", Saved(left))
       ELSE Bind(insertInternalAfterSplit(bt3, LoadNode(bt3.st, leaf.Parent),
                                          right.Keys[1], rid), LAMBDA r :
               Ret(r.bt, r.err, Saved(left)))))))

splitLeaf(bt, leaf) ==
    LET mid == Len(leaf.Keys) \div 2
        rid == bt.ids + 1
    IN Bind([NewBTreeNode(rid, "leaf", bt.pageSize) EXCEPT
                !.Keys = Drop(leaf.Keys, mid), !.Values = Drop(leaf.Values, mid),
                !.Next = leaf.Next, !.Previous = leaf.ID, !.Parent = leaf.Parent], LAMBDA right :
       Bind(IF leaf.Next # NoID /\ CanLoad(bt.st, leaf.Next)
            THEN SaveNode(bt.st, [LoadNode(bt.st, leaf.Next) EXCEPT
                                     !.Previous = rid, !.IsDirty = TRUE])
            ELSE bt.st, LAMBDA st1 :
       Bind([leaf EXCEPT !.Keys = Take(@, mid), !.Values = Take(@, mid),
                         !.Next = rid, !.IsDirty = TRUE], LAMBDA left :
       Bind([bt EXCEPT !.st = SaveNode(SaveNode(st1, left), right), !.ids = rid], LAMBDA bt3 :
       IF leaf.Parent = NoID THEN
           Bind(linkLeaves(bt3.st, NewBTreeNode(rid + 1, "internal", bt.pageSize),
                           gatherLeaves(bt3.st, leftmostInChain(bt3.st, Saved(left)), <<>>),
                           1), LAMBDA lk :
               IF lk.err # "ok"
               THEN Ret([bt3 EXCEPT !.st = lk.st, !.ids = rid + 1], lk.err, Saved(left))
               ELSE Ret([bt3 EXCEPT !.st = SaveNode(lk.st, lk.root), !.ids = rid + 1,
                                    !.rootID = rid + 1],
                        "ok", Saved(left)))
       ELSE IF ~CanLoad(bt3.st, leaf.Parent) THEN Ret(bt3, "io", Saved(left))
       ELSE Bind(insertInternalAfterSplit(bt3, LoadNode(bt3.st, leaf.Parent),
                                          right.Keys[1], rid), LAMBDA r :
               Ret(r.bt, r.err, Saved(left)))))))

\* handleSplit is a no-op
handleSplit(bt, parent, child) == bt

\* TRUE iff some key of the leaf equals key (the duplicate scan of a unique tree)
HasKey(node, key) == \E i \in 1..Len(node.Keys) : compareKeys(key, node.Keys[i]) = 0

\* the position a pair takes in a leaf: after smaller keys, and in a
\* non-unique tree after the equal keys that follow
RECURSIVE SkipEqualFrom(_, _, _)
SkipEqualFrom(keys, key, pos) ==
    IF pos < Len(keys) /\ compareKeys(key, keys[pos + 1]) = 0
    THEN SkipEqualFrom(keys, key, pos + 1) ELSE pos

LeafInsertPos(bt, node, key) ==
    Bind(PosGreater(node.Keys, key), LAMBDA pos :
        IF bt.isUniqueKey THEN pos ELSE SkipEqualFrom(node.Keys, key, pos))

RECURSIVE insertRecursive(_, _, _, _)
insertRecursive(bt, node, key, value) ==
    IF IsLeaf(node) THEN
        IF bt.isUniqueKey /\ HasKey(node, key) THEN Ret(bt, "duplicate", node)
        ELSE Bind(LeafInsertPos(bt, node, key), LAMBDA pos :
             Bind([node EXCEPT !.Keys = InsertAt(@, pos, key),
                               !.Values = InsertAt(@, pos, value),
                               !.IsDirty = TRUE], LAMBDA n2 :
                IF ~IsFull(n2) THEN Ret(WithStorage(bt, SaveNode(bt.st, n2)), "ok", Saved(n2))
                ELSE splitLeaf(bt, n2)))
    ELSE
        Bind(InsertChildPos(node, key), LAMBDA pos :
           IF pos >= Len(node.Values) THEN Ret(bt, "panic", node)
           ELSE IF ~CanLoad(bt.st, node.Values[pos + 1]) THEN Ret(bt, "io", node)
           ELSE Bind(insertRecursive(bt, LoadNode(bt.st, node.Values[pos + 1]), key, value),
                     LAMBDA r :
                   IF r.err # "ok" THEN Ret(r.bt, r.err, node)
                   ELSE IF IsFull(r.node) THEN Ret(handleSplit(r.bt, node, r.node), "ok", node)
                   ELSE Ret(WithStorage(r.bt, SaveNode(r.bt.st, node)), "ok", Saved(node))))

Insert(bt, key, value) ==
    Bind(Search(bt, key), LAMBDA s :
       IF bt.isUniqueKey /\ bt.rootID # NoID /\ s.err # "ok" THEN [bt |-> bt, err |-> s.err]
       ELSE IF bt.isUniqueKey /\ bt.rootID # NoID /\ Len(s.res) > 0
            THEN [bt |-> bt, err |-> "duplicate"]
       ELSE IF bt.rootID = NoID THEN
            Bind([NewBTreeNode(bt.ids + 1, "leaf", bt.pageSize) EXCEPT
                     !.Keys = <<key>>, !.Values = <<value>>], LAMBDA root :
                [bt |-> [bt EXCEPT !.st = SaveNode(@, root), !.rootID = root.ID,
                                   !.ids = root.ID],
                 err |-> "ok"])
       ELSE IF ~CanLoad(bt.st, bt.rootID) THEN [bt |-> bt, err |-> "io"]
       ELSE Bind(insertRecursive(bt, LoadNode(bt.st, bt.rootID), key, value), LAMBDA r :
                [bt |-> r.bt, err |-> r.err]))

-----------------------------------------------------------------------------
(* BTree.Delete *)

\* the pairs of a leaf that remain when every pair with an equal key is removed
RECURSIVE keepFrom(_, _, _)
keepFrom(seq, keys, key) ==
    IF keys = <<>> THEN <<>>
    ELSE (IF compareKeys(key, Head(keys)) = 0 THEN <<>> ELSE <<Head(seq)>>)
         \o keepFrom(Tail(seq), Tail(keys), key)

\* the child position deleteRecursive descends to: strict upper bound, clamped
DeleteChildPos(node, key) == Clamp(PosGreaterEq(node.Keys, key), Len(node.Values))

DRet(bt, changed, shrink, err, node) ==
    [bt |-> bt, changed |-> changed, shrink |-> shrink, err |-> err, node |-> node]

\* the internal node after the pointer to its emptied child at pos is removed
RemoveChild(node, pos) ==
    [node EXCEPT !.Keys = IF pos < Len(node.Keys) THEN RemoveAt(@, pos) ELSE @,
                 !.Values = RemoveAt(@, pos),
                 !.IsDirty = TRUE]

RECURSIVE deleteRecursive(_, _, _)
deleteRecursive(bt, node, key) ==
    IF IsLeaf(node) THEN
        Bind(HasKey(node, key), LAMBDA deleted :
        Bind([node EXCEPT !.Keys = keepFrom(node.Keys, node.Keys, key),
                          !.Values = keepFrom(node.Values, node.Keys, key),
                          !.IsDirty = IF deleted THEN TRUE ELSE @], LAMBDA n2 :
            DRet(WithStorage(bt, SaveNode(bt.st, n2)), deleted, Len(n2.Keys) = 0, "ok",
                 Saved(n2))))
    ELSE
        Bind(DeleteChildPos(node, key), LAMBDA pos :
           IF pos < 0 THEN DRet(bt, FALSE, FALSE, "panic", node)
           ELSE IF ~CanLoad(bt.st, node.Values[pos + 1]) THEN DRet(bt, FALSE, FALSE, "io", node)
           ELSE Bind(deleteRecursive(bt, LoadNode(bt.st, node.Values[pos + 1]), key),
                     LAMBDA r :
                   IF r.err # "ok" THEN DRet(r.bt, FALSE, FALSE, r.err, node)
                   ELSE IF ~r.changed THEN DRet(r.bt, FALSE, FALSE, "ok", node)
                   ELSE IF r.shrink /\ (IsLeaf(r.node) \/ Len(r.node.Keys) = 0) THEN
                        Bind(RemoveChild(node, pos), LAMBDA n2 :
                        Bind(WithStorage(r.bt, SaveNode(r.bt.st, n2)), LAMBDA bt2 :
                           IF n2.Parent = NoID /\ Len(n2.Values) = 1
                           THEN DRet([bt2 EXCEPT !.rootID = n2.Values[1]], TRUE, TRUE, "ok",
                                     Saved(n2))
                           ELSE DRet(bt2, TRUE, Len(n2.Keys) = 0, "ok", Saved(n2))))
                   ELSE DRet(WithStorage(r.bt, SaveNode(r.bt.st, node)), TRUE, FALSE, "ok",
                             Saved(node))))

\* Delete that leaves the root identifier alone when the root leaf has emptied
DeleteKeepingRoot(bt, key) ==
    IF bt.rootID = NoID THEN [bt |-> bt, err |-> "ok"]
    ELSE IF ~CanLoad(bt.st, bt.rootID) THEN [bt |-> bt, err |-> "io"]
    ELSE Bind(deleteRecursive(bt, LoadNode(bt.st, bt.rootID), key), LAMBDA r :
            [bt |-> r.bt, err |-> r.err])

Delete(bt, key) ==
    IF bt.rootID = NoID THEN [bt |-> bt, err |-> "ok"]
    ELSE IF ~CanLoad(bt.st, bt.rootID) THEN [bt |-> bt, err |-> "io"]
    ELSE Bind(deleteRecursive(bt, LoadNode(bt.st, bt.rootID), key), LAMBDA r :
            IF r.err # "ok" THEN [bt |-> r.bt, err |-> r.err]
            ELSE IF r.shrink /\ IsLeaf(r.node) /\ Len(r.node.Keys) = 0
                 THEN [bt |-> [r.bt EXCEPT !.rootID = NoID], err |-> "ok"]
            ELSE [bt |-> r.bt, err |-> "ok"])

-----------------------------------------------------------------------------
(* BTree.Update *)

\* the child position Update descends to: as Insert, no clamp
UpdateChildPos(node, key) == PosGreater(node.Keys, key)

RECURSIVE updateLeaf(_, _, _)
updateLeaf(st, node, key) ==
    IF IsLeaf(node) THEN [err |-> "ok", node |-> node]
    ELSE Bind(UpdateChildPos(node, key), LAMBDA pos :
            IF pos >= Len(node.Values) THEN [err |-> "panic", node |-> node]
            ELSE IF ~CanLoad(st, node.Values[pos + 1]) THEN [err |-> "io", node |-> node]
            ELSE updateLeaf(st, LoadNode(st, node.Values[pos + 1]), key))

\* the first index of the leaf whose key equals key (0 if none)
FirstMatch(node, key) ==
    IF HasKey(node, key)
    THEN CHOOSE i \in 1..Len(node.Keys) :
            /\ compareKeys(key, node.Keys[i]) = 0
            /\ \A j \in 1..(i - 1) : compareKeys(key, node.Keys[j]) # 0
    ELSE 0

Update(bt, key, newValue) ==
    IF ~bt.isUniqueKey THEN [bt |-> bt, err |-> "unsupported"]
    ELSE IF bt.rootID = NoID THEN [bt |-> bt, err |-> "empty"]
    ELSE IF ~CanLoad(bt.st, bt.rootID) THEN [bt |-> bt, err |-> "io"]
    ELSE Bind(updateLeaf(bt.st, LoadNode(bt.st, bt.rootID), key), LAMBDA d :
            IF d.err # "ok" THEN [bt |-> bt, err |-> d.err]
            ELSE Bind(FirstMatch(d.node, key), LAMBDA i :
                    IF i = 0 THEN [bt |-> bt, err |-> "notfound"]
                    ELSE [bt |-> WithStorage(bt, SaveNode(bt.st,
                                     [d.node EXCEPT !.Values[i] = newValue,
                                                    !.IsDirty = TRUE])),
                          err |-> "ok"]))

-----------------------------------------------------------------------------
(* IndexManager *)

Range(f) == {f[i] : i \in DOMAIN f}

extractIndexKey(row, def) ==
    [i \in 1..Len(def.Keys) |->
        IF def.Keys[i] \in DOMAIN row THEN row[def.Keys[i]] ELSE NilV]

extractNonClusteredValue(row, def) ==
    [f \in (Range(def.Keys) \cup Range(def.Includes)) \cap DOMAIN row |-> row[f]]

\* the value an index stores for a row: the row, or its projection
IndexValue(row, def) ==
    IF def.IsClustered THEN row ELSE extractNonClusteredValue(row, def)

NoMeta == [exists |-> FALSE, rootID |-> NoID]
saveRootNodeID(rootID) == [exists |-> TRUE, rootID |-> rootID]

\* NewIndexManager on a directory with node files st and meta file meta
NewIndexManager(def, st, meta, ids) ==
    [indexDef |-> def,
     rootNodeID |-> IF meta.exists /\ meta.rootID # NoID THEN meta.rootID ELSE NoID,
     bTree |-> NewBTree(st, IF meta.exists /\ meta.rootID # NoID THEN meta.rootID ELSE NoID,
                        def.PageSize, def.IsClustered, ids),
     meta |-> meta]

\* the manager when root.meta is written by the first success only
PersistOnce(m, r) ==
    IF r.err = "ok"
    THEN [im |-> [m EXCEPT !.bTree = r.bt, !.rootNodeID = r.bt.rootID,
                           !.meta = IF m.meta.exists THEN m.meta
                                    ELSE saveRootNodeID(r.bt.rootID)],
          err |-> "ok"]
    ELSE [im |-> [m EXCEPT !.bTree = r.bt], err |-> r.err]

\* on success the manager records and persists the tree's root identifier
Persist(m, r) ==
    IF r.err = "ok"
    THEN [im |-> [m EXCEPT !.bTree = r.bt, !.rootNodeID = r.bt.rootID,
                           !.meta = saveRootNodeID(r.bt.rootID)],
          err |-> "ok"]
    ELSE [im |-> [m EXCEPT !.bTree = r.bt], err |-> r.err]

IndexManagerInsert(m, key, value) ==
    Persist(m, Insert(m.bTree, key, IndexValue(value, m.indexDef)))

IndexManagerDelete(m, key) == Persist(m, Delete(m.bTree, key))

\* bTree.Delete(oldKey) and, if that succeeded, bTree.Insert(newKey, value)
DeleteThenInsert(bt, oldKey, newKey, value) ==
    Bind(Delete(bt, oldKey), LAMBDA d :
        IF d.err # "ok" THEN d ELSE Insert(d.bt, newKey, value))

IndexManagerUpdate(m, oldKey, oldValue, newKey, newValue) ==
    Persist(m, IF compareKeys(oldKey, newKey) # 0
               THEN DeleteThenInsert(m.bTree, oldKey, newKey, IndexValue(newValue, m.indexDef))
               ELSE Update(m.bTree, oldKey, IndexValue(newValue, m.indexDef)))

IndexManagerSearch(m, key) == Search(m.bTree, key)

\* the insert loop of Build: stops at the first error
RECURSIVE buildFrom(_, _, _, _)
buildFrom(bt, def, data, i) ==
    IF i > Len(data) THEN [bt |-> bt, err |-> "ok"]
    ELSE Bind(Insert(bt, extractIndexKey(data[i], def), IndexValue(data[i], def)), LAMBDA r :
            IF r.err # "ok" THEN r ELSE buildFrom(r.bt, def, data, i + 1))

\* Build when the files of the directory are kept and the rows go into the tree
\* the manager holds
BuildOnto(m, data) ==
    Bind(buildFrom(m.bTree, m.indexDef, data, 1), LAMBDA r :
       IF r.err = "ok"
       THEN [im |-> [m EXCEPT !.bTree = r.bt, !.rootNodeID = r.bt.rootID,
                              !.meta = saveRootNodeID(r.bt.rootID)],
             err |-> "ok"]
       ELSE [im |-> [m EXCEPT !.bTree = r.bt], err |-> r.err])

\* Build removes every file of the index directory (node files and root.meta)
\* and fills a new tree; no identifier of a removed node survives anywhere
Build(m, data) ==
    Bind(buildFrom(NewBTree(EmptyStorage, NoID, m.indexDef.PageSize,
                            m.indexDef.IsClustered, 0),
                   m.indexDef, data, 1), LAMBDA r :
       IF r.err = "ok"
       THEN [im |-> [m EXCEPT !.bTree = r.bt, !.rootNodeID = r.bt.rootID,
                              !.meta = saveRootNodeID(r.bt.rootID)],
             err |-> "ok"]
       ELSE [im |-> [m EXCEPT !.bTree = r.bt, !.meta = NoMeta], err |-> r.err])

-----------------------------------------------------------------------------
(* Node identifiers.  generateNodeID draws random strings, so a state is    *)
(* determined only up to a renaming of the identifiers, and a file that no  *)
(* pointer chain from the root names is never read again (only Build lists  *)
(* the directory, to remove everything).  After each operation the model    *)
(* keeps the files reachable from the root through child, next, previous    *)
(* and parent pointers and numbers them in the order of a breadth-first     *)
(* walk.                                                                    *)

Pointers(n) ==
    (IF IsLeaf(n) THEN <<>> ELSE n.Values) \o <<n.Previous, n.Next, n.Parent>>

\* s without NoID, without the identifiers in seen, without repetitions
RECURSIVE FreshOf(_, _)
FreshOf(s, seen) ==
    IF s = <<>> THEN <<>>
    ELSE IF Head(s) = NoID \/ Head(s) \in seen THEN FreshOf(Tail(s), seen)
    ELSE <<Head(s)>> \o FreshOf(Tail(s), seen \cup {Head(s)})

RECURSIVE Walk(_, _, _)
Walk(st, queue, order) ==
    IF queue = <<>> THEN order
    ELSE Bind(IF CanLoad(st, Head(queue))
              THEN FreshOf(Pointers(st[Head(queue)]), Range(order))
              ELSE <<>>, LAMBDA fresh :
            Walk(st, Tail(queue) \o fresh, order \o fresh))

Reachable(bt) == IF bt.rootID = NoID THEN <<>> ELSE Walk(bt.st, <<bt.rootID>>, <<bt.rootID>>)

Renumber(order, id) ==
    IF id = NoID THEN NoID ELSE CHOOSE i \in 1..Len(order) : order[i] = id

RenumberNode(order, n) ==
    [n EXCEPT !.ID = Renumber(order, @), !.Parent = Renumber(order, @),
              !.Next = Renumber(order, @), !.Previous = Renumber(order, @),
              !.Values = IF IsLeaf(n) THEN @
                         ELSE [i \in DOMAIN n.Values |-> Renumber(order, n.Values[i])]]

NormalizeTree(bt, order) ==
    [bt EXCEPT !.st = [i \in 1..Len(order) |-> RenumberNode(order, bt.st[order[i]])],
               !.rootID = Renumber(order, @),
               !.ids = Len(order)]

\* the new name of a recorded root identifier: NoID if its file is out of reach
Known(order, id) == IF id \in Range(order) THEN Renumber(order, id) ELSE NoID

\* the manager with its tree normalized; the persisted root follows the renaming
Normalize(m) ==
    Bind(Reachable(m.bTree), LAMBDA order :
        [m EXCEPT !.bTree = NormalizeTree(@, order),
                  !.rootNodeID = Known(order, @),
                  !.meta = [@ EXCEPT !.rootID = Known(order, @)]])

-----------------------------------------------------------------------------
(* Tokenizer.  A string is its sequence of code points. *)

\* strings.ToLower on the letters the model uses: A..Z map to a..z
ToLower(s) == [i \in DOMAIN s |-> IF s[i] \in 65..90 THEN s[i] + 32 ELSE s[i]]

\* unicode.IsSpace
IsSpace(r) == r \in {9, 10, 11, 12, 13, 32, 133, 160, 5760, 8232, 8233, 8239, 8287, 12288}
                     \cup (8192..8202)

\* unicode.IsPunct on ASCII and on the CJK full stop and commas
IsPunct(r) == r \in {33, 34, 35, 37, 38, 39, 40, 41, 42, 44, 45, 46, 47, 58, 59, 63, 64,
                     91, 92, 93, 95, 123, 125, 12289, 12290, 65292}

\* "a", "an", "and", "are", "as", "at", "be", "by", "for", "from", "has", "he", "in",
\* "is", "it", "its", "of", "on", "that", "the", "to", "was", "will", "with"
englishStopWords ==
    {<<97>>, <<97, 110>>, <<97, 110, 100>>, <<97, 114, 101>>, <<97, 115>>, <<97, 116>>,
     <<98, 101>>, <<98, 121>>, <<102, 111, 114>>, <<102, 114, 111, 109>>,
     <<104, 97, 115>>, <<104, 101>>, <<105, 110>>, <<105, 115>>, <<105, 116>>,
     <<105, 116, 115>>, <<111, 102>>, <<111, 110>>, <<116, 104, 97, 116>>,
     <<116, 104, 101>>, <<116, 111>>, <<119, 97, 115>>, <<119, 105, 108, 108>>,
     <<119, 105, 116, 104>>}

isEnglishChar(r) == r <= 127 /\ (r \in 65..90 \/ r \in 97..122 \/ r \in 48..57)

\* unicode.Is(unicode.Han, r) on the CJK unified ideographs and extension A
isChineseChar(r) == r \in 19968..40959 \/ r \in 13312..19903

\* extractWords: the loop over the runes from position i on, then the final word
RECURSIVE extractWordsFrom(_, _, _, _, _)
extractWordsFrom(runes, i, words, currentWord, isCurrentWordEnglish) ==
    LET finished == IF currentWord # <<>>
                       /\ (~isCurrentWordEnglish \/ currentWord \notin englishStopWords)
                    THEN Append(words, currentWord)
                    ELSE words
    IN IF i > Len(runes) THEN finished
       ELSE LET r == runes[i]
            IN IF IsSpace(r) \/ IsPunct(r)
               THEN extractWordsFrom(runes, i + 1, finished, <<>>, isCurrentWordEnglish)
               ELSE IF ~isEnglishChar(r) /\ ~isChineseChar(r)
               THEN extractWordsFrom(runes, i + 1, words, currentWord, isCurrentWordEnglish)
               ELSE IF currentWord = <<>>
               THEN extractWordsFrom(runes, i + 1, words, <<r>>, isEnglishChar(r))
               ELSE IF (isCurrentWordEnglish /\ ~isEnglishChar(r))
                       \/ (~isCurrentWordEnglish /\ ~isChineseChar(r))
               THEN extractWordsFrom(runes, i + 1, finished, <<r>>, isEnglishChar(r))
               ELSE extractWordsFrom(runes, i + 1, words, Append(currentWord, r),
                                     isCurrentWordEnglish)

extractWords(input) == extractWordsFrom(ToLower(input), 1, <<>>, <<>>, FALSE)

\* the windows of n runes of a word, left to right
Windows(runes, n) ==
    IF Len(runes) < n THEN <<>>
    ELSE [i \in 1..(Len(runes) - n + 1) |-> SubSeq(runes, i, i + n - 1)]

\* the n-grams of a word when Han words are windowed by n like the others
WordGramsByN(word, n) ==
    IF isEnglishChar(word[1]) /\ Len(word) <= n THEN <<word>>
    ELSE Windows(word, n)

\* the n-grams NGram appends for one word
WordGrams(word, n) ==
    IF isChineseChar(word[1])
    THEN (IF Len(word) >= 2 THEN Windows(word, 2) ELSE <<word>>)
    ELSE IF isEnglishChar(word[1]) /\ Len(word) <= n THEN <<word>>
    ELSE Windows(word, n)

RECURSIVE NGramFrom(_, _, _)
NGramFrom(words, i, n) ==
    IF i > Len(words) THEN <<>> ELSE WordGrams(words[i], n) \o NGramFrom(words, i + 1, n)

NGram(input, n) == IF n <= 0 THEN <<>> ELSE NGramFrom(extractWords(input), 1, n)

-----------------------------------------------------------------------------
(* InvertedIndex: one posting-list file per term and a cache of the posting  *)
(* lists this instance has loaded or written.  A posting list is the map     *)
(* from document id to frequency; the order of its entries (by frequency,    *)
(* ties in any order) is not read by any operation.                          *)

Put(f, k, v) == [x \in DOMAIN f \cup {k} |-> IF x = k THEN v ELSE f[x]]
Del(f, k) == [x \in DOMAIN f \ {k} |-> f[x]]
NoFiles == [x \in {} |-> 0]

\* the UTF-8 bytes of a code point below 65536 and the two hex digits of a byte
Utf8(cp) ==
    IF cp < 128 THEN <<cp>>
    ELSE IF cp < 2048 THEN <<192 + (cp \div 64), 128 + (cp % 64)>>
    ELSE <<224 + (cp \div 4096), 128 + ((cp \div 64) % 64), 128 + (cp % 64)>>
HexDigit(d) == IF d < 10 THEN 48 + d ELSE 87 + d
RECURSIVE HexBytes(_)
HexBytes(s) ==
    IF s = <<>> THEN <<>>
    ELSE Bind(Utf8(Head(s)), LAMBDA b :
            [i \in 1..(2 * Len(b)) |->
                HexDigit(IF i % 2 = 1 THEN b[(i + 1) \div 2] \div 16 ELSE b[i \div 2] % 16)])
         \o HexBytes(Tail(s))

\* "term_%x.json"
getTermFileName(term) == <<116, 101, 114, 109, 95>> \o HexBytes(term) \o <<46, 106, 115, 111, 110>>

NewInvertedIndex(files, ngramSize) ==
    [ngramSize |-> IF ngramSize <= 0 THEN 3 ELSE ngramSize, files |-> files, cache |-> NoFiles]

\* the posting list of a term, loaded into the cache when only its file holds it
getPostingList(idx, term) ==
    IF term \in DOMAIN idx.cache
    THEN [idx |-> idx, found |-> TRUE, docs |-> idx.cache[term]]
    ELSE Bind(getTermFileName(term), LAMBDA fileName :
        IF fileName \notin DOMAIN idx.files
        THEN [idx |-> idx, found |-> FALSE, docs |-> NoFiles]
        ELSE [idx |-> [idx EXCEPT !.cache = Put(@, term, idx.files[fileName])],
              found |-> TRUE, docs |-> idx.files[fileName]])

addTermOccurrence(idx, term, docID, freq) ==
    Bind(getPostingList(idx, term), LAMBDA g :
    Bind(Put(g.docs, docID, (IF docID \in DOMAIN g.docs THEN g.docs[docID] ELSE 0) + freq),
         LAMBDA docs :
        [g.idx EXCEPT !.files = Put(@, getTermFileName(term), docs),
                      !.cache = Put(@, term, docs)]))

\* only the posting lists in the cache are scanned
removeDocumentUnsafe(idx, docID) ==
    Bind({t \in DOMAIN idx.cache : DOMAIN idx.cache[t] \ {docID} # {}}, LAMBDA kept :
    Bind([t \in kept |-> Del(idx.cache[t], docID)], LAMBDA cache :
        [idx EXCEPT !.cache = cache,
                    !.files = [fn \in (DOMAIN idx.files
                                          \ {getTermFileName(t) : t \in DOMAIN idx.cache \ kept})
                                      \cup {getTermFileName(t) : t \in kept} |->
                                  IF \E t \in kept : getTermFileName(t) = fn
                                  THEN cache[CHOOSE t \in kept : getTermFileName(t) = fn]
                                  ELSE idx.files[fn]]]))

RemoveDocument(idx, docID) == removeDocumentUnsafe(idx, docID)

RECURSIVE addTerms(_, _, _, _)
addTerms(idx, terms, ngrams, docID) ==
    IF terms = {} THEN idx
    ELSE Bind(CHOOSE x \in terms : TRUE, LAMBDA t :
            addTerms(addTermOccurrence(idx, t, docID,
                                       Cardinality({i \in DOMAIN ngrams : ngrams[i] = t})),
                     terms \ {t}, ngrams, docID))

AddDocument(idx, docID, text) ==
    Bind(NGram(ToLower(text), idx.ngramSize), LAMBDA ngrams :
        addTerms(removeDocumentUnsafe(idx, docID), Range(ngrams), ngrams, docID))

\* the looked-up posting lists of the query's n-grams, one per n-gram that has one
RECURSIVE postingLists(_, _, _)
postingLists(idx, ngrams, i) ==
    IF i > Len(ngrams) THEN [idx |-> idx, lists |-> <<>>]
    ELSE Bind(getPostingList(idx, ngrams[i]), LAMBDA g :
         Bind(postingLists(g.idx, ngrams, i + 1), LAMBDA rest :
            [idx |-> rest.idx,
             lists |-> IF g.found THEN <<g.docs>> \o rest.lists ELSE rest.lists]))

RECURSIVE SumFreq(_, _, _)
SumFreq(lists, i, docID) ==
    IF i > Len(lists) THEN 0
    ELSE (IF docID \in DOMAIN lists[i] THEN lists[i][docID] ELSE 0) + SumFreq(lists, i + 1, docID)

\* Search: found is FALSE where the code returns nil; docScores maps each returned
\* document to its score (the list is ordered by score, ties in any order)
InvertedIndexSearch(idx, query) ==
    Bind(NGram(ToLower(query), idx.ngramSize), LAMBDA ngrams :
       IF (\A i \in DOMAIN query : IsSpace(query[i])) \/ ngrams = <<>>
       THEN [idx |-> idx, found |-> FALSE, docScores |-> NoFiles]
       ELSE Bind(postingLists(idx, ngrams, 1), LAMBDA p :
           IF p.lists = <<>>
           THEN [idx |-> p.idx, found |-> FALSE, docScores |-> NoFiles]
           ELSE [idx |-> p.idx, found |-> TRUE,
                 docScores |-> [d \in UNION {DOMAIN p.lists[i] : i \in DOMAIN p.lists} |->
                                   SumFreq(p.lists, 1, d)]]))

-----------------------------------------------------------------------------
(* Collection *)

\* what a collection directory holds: per index its node files, its root.meta and the
\* identifiers drawn so far, and the posting-list files of the fulltext directory
EmptyDisk(schema) ==
    [index |-> [i \in DOMAIN schema.Indexes |->
                   [st |-> EmptyStorage, meta |-> NoMeta, ids |-> 0]],
     fulltext |-> NoFiles]

\* NewCollection: one IndexManager per index of the schema, the clustered one apart,
\* and a trigram inverted index when the schema enables full text
NewCollection(schema, disk) ==
    LET isClustered(m) == m.indexDef.IsClustered
        isSecondary(m) == ~m.indexDef.IsClustered
    IN Bind([i \in DOMAIN schema.Indexes |->
                NewIndexManager(schema.Indexes[i], disk.index[i].st,
                                disk.index[i].meta, disk.index[i].ids)], LAMBDA ims :
        [Schema |-> schema,
         clusteredIndex |-> SelectSeq(ims, isClustered)[1],
         nonClusteredIndexes |-> SelectSeq(ims, isSecondary),
         fullTextIndex |-> NewInvertedIndex(disk.fulltext, 3)])

\* the directory a collection handle has written
Disk(c) ==
    LET ims == <<c.clusteredIndex>> \o c.nonClusteredIndexes
        named(i) == ims[CHOOSE j \in DOMAIN ims :
                            ims[j].indexDef.Name = c.Schema.Indexes[i].Name]
    IN [index |-> [i \in DOMAIN c.Schema.Indexes |->
                      Bind(named(i), LAMBDA m :
                          [st |-> m.bTree.st, meta |-> m.meta, ids |-> m.bTree.ids])],
        fulltext |-> c.fullTextIndex.files]

RECURSIVE JoinFmt(_, _)
JoinFmt(vals, sep) ==
    IF vals = <<>> THEN <<>>
    ELSE IF Len(vals) = 1 THEN FmtV(vals[1])
    ELSE FmtV(vals[1]) \o sep \o JoinFmt(Tail(vals), sep)

\* the "%v" of the key components joined by "_"
generateDocumentID(key) == JoinFmt(key, <<95>>)

\* the "%v" of the non-nil values of the full-text columns joined by " "
extractFullTextContent(c, row) ==
    LET isText(col) == col.FullText /\ col.FieldName \in DOMAIN row
                       /\ row[col.FieldName] # NilV
        cols == SelectSeq(c.Schema.Columns, isText)
    IN JoinFmt([i \in DOMAIN cols |-> row[cols[i].FieldName]], <<32>>)

\* one write of a collection operation on one secondary index
secondaryWrite(m, op, oldRow, newRow) ==
    CASE op = "Insert" -> IndexManagerInsert(m, extractIndexKey(newRow, m.indexDef), newRow)
      [] op = "Update" -> IndexManagerUpdate(m, extractIndexKey(oldRow, m.indexDef), oldRow,
                                             extractIndexKey(newRow, m.indexDef), newRow)
      [] op = "Delete" -> IndexManagerDelete(m, extractIndexKey(oldRow, m.indexDef))

\* the loop over the secondary indexes: stops at the first error
RECURSIVE forEachSecondary(_, _, _, _, _)
forEachSecondary(ims, i, op, oldRow, newRow) ==
    IF i > Len(ims) THEN [ims |-> ims, err |-> "ok"]
    ELSE Bind(secondaryWrite(ims[i], op, oldRow, newRow), LAMBDA r :
            IF r.err # "ok" THEN [ims |-> [ims EXCEPT ![i] = r.im], err |-> r.err]
            ELSE forEachSecondary([ims EXCEPT ![i] = r.im], i + 1, op, oldRow, newRow))

\* Insert when the secondary indexes are written whatever the clustered index returned
CollectionInsertAll(c, row) ==
    Bind(extractIndexKey(row, c.clusteredIndex.indexDef), LAMBDA key :
    Bind(IndexManagerInsert(c.clusteredIndex, key, row), LAMBDA r1 :
    Bind(forEachSecondary(c.nonClusteredIndexes, 1, "Insert", row, row), LAMBDA r2 :
        [coll |-> [c EXCEPT !.clusteredIndex = r1.im, !.nonClusteredIndexes = r2.ims],
         err |-> IF r1.err # "ok" THEN r1.err ELSE r2.err])))

\* each write runs the clustered index, then the secondary indexes, then the inverted
\* index, and returns at the first error with what it has written so far
CollectionInsert(c, row) ==
    Bind(extractIndexKey(row, c.clusteredIndex.indexDef), LAMBDA key :
    Bind(IndexManagerInsert(c.clusteredIndex, key, row), LAMBDA r1 :
       IF r1.err # "ok" THEN [coll |-> [c EXCEPT !.clusteredIndex = r1.im], err |-> r1.err]
       ELSE Bind(forEachSecondary(c.nonClusteredIndexes, 1, "Insert", row, row), LAMBDA r2 :
            Bind(extractFullTextContent(c, row), LAMBDA content :
               [coll |-> [c EXCEPT !.clusteredIndex = r1.im,
                                   !.nonClusteredIndexes = r2.ims,
                                   !.fullTextIndex =
                                       IF r2.err = "ok" /\ c.Schema.EnableFullText
                                          /\ content # <<>>
                                       THEN AddDocument(@, generateDocumentID(key), content)
                                       ELSE @],
                err |-> r2.err]))))

CollectionUpdate(c, oldRow, newRow) ==
    Bind(extractIndexKey(oldRow, c.clusteredIndex.indexDef), LAMBDA oldKey :
    Bind(extractIndexKey(newRow, c.clusteredIndex.indexDef), LAMBDA newKey :
    Bind(IndexManagerUpdate(c.clusteredIndex, oldKey, oldRow, newKey, newRow), LAMBDA r1 :
       IF r1.err # "ok" THEN [coll |-> [c EXCEPT !.clusteredIndex = r1.im], err |-> r1.err]
       ELSE Bind(forEachSecondary(c.nonClusteredIndexes, 1, "Update", oldRow, newRow),
                 LAMBDA r2 :
            Bind(extractFullTextContent(c, newRow), LAMBDA content :
               [coll |-> [c EXCEPT !.clusteredIndex = r1.im,
                                   !.nonClusteredIndexes = r2.ims,
                                   !.fullTextIndex =
                                       IF r2.err # "ok" \/ ~c.Schema.EnableFullText THEN @
                                       ELSE Bind(RemoveDocument(@, generateDocumentID(oldKey)),
                                                 LAMBDA removed :
                                               IF content # <<>>
                                               THEN AddDocument(removed,
                                                                generateDocumentID(newKey),
                                                                content)
                                               ELSE removed)],
                err |-> r2.err])))))

CollectionDelete(c, row) ==
    Bind(extractIndexKey(row, c.clusteredIndex.indexDef), LAMBDA key :
    Bind(IndexManagerDelete(c.clusteredIndex, key), LAMBDA r1 :
       IF r1.err # "ok" THEN [coll |-> [c EXCEPT !.clusteredIndex = r1.im], err |-> r1.err]
       ELSE Bind(forEachSecondary(c.nonClusteredIndexes, 1, "Delete", row, row), LAMBDA r2 :
               [coll |-> [c EXCEPT !.clusteredIndex = r1.im,
                                   !.nonClusteredIndexes = r2.ims,
                                   !.fullTextIndex =
                                       IF r2.err = "ok" /\ c.Schema.EnableFullText
                                       THEN RemoveDocument(@, generateDocumentID(key))
                                       ELSE @],
                err |-> r2.err])))

Find(c, key) == IndexManagerSearch(c.clusteredIndex, key)

FindByIndex(c, indexName, key) ==
    LET isNamed(m) == m.indexDef.Name = indexName
        named == SelectSeq(c.nonClusteredIndexes, isNamed)
    IN IF named = <<>> THEN [res |-> <<>>, err |-> "noindex"]
       ELSE IndexManagerSearch(named[1], key)

SearchFullText(c, query) ==
    IF ~c.Schema.EnableFullText
    THEN [idx |-> c.fullTextIndex, found |-> FALSE, docScores |-> NoFiles, err |-> "invalid"]
    ELSE Bind(InvertedIndexSearch(c.fullTextIndex, query), LAMBDA r :
            [idx |-> r.idx, found |-> r.found, docScores |-> r.docScores, err |-> "ok"])

-----------------------------------------------------------------------------
(* Inputs: the schema of the collection and the rows callers pass *)

ClusteredDef ==
    [Name |-> "pk", IsClustered |-> TRUE, Keys |-> <<"id">>, Includes |-> <<>>,
     PageSize |-> PageSize]

SecondaryDef ==
    [Name |-> "by_name", IsClustered |-> FALSE, Keys |-> <<"name">>, Includes |-> <<"id">>,
     PageSize |-> PageSize]

\* the rows callers insert and build from: ids 1..MaxKey, the last one named "B",
\* the others "A"
BuildRow(i) == [id |-> IntV(i), name |-> StrV(IF i = MaxKey THEN <<66>> ELSE <<65>>)]
InsertRows == {BuildRow(i) : i \in 1..MaxKey}

\* the new rows callers pass to Update: the same ids, renamed "C"
UpdateRows == {[id |-> IntV(i), name |-> StrV(<<67>>)] : i \in 1..MaxKey}

Rows == InsertRows \cup UpdateRows

KeysOf(def) == {extractIndexKey(row, def) : row \in Rows}

\* a collection with a secondary index on name, and one with full text on title
\* and content
Column(name, fullText) == [FieldName |-> name, FullText |-> fullText]

ProductSchema ==
    [Name |-> "products",
     Columns |-> <<Column("id", FALSE), Column("name", FALSE), Column("price", FALSE)>>,
     Indexes |-> <<ClusteredDef, SecondaryDef>>,
     EnableFullText |-> FALSE]

\* the products with full text on the name: a clustered index, a secondary index and
\* an inverted index
CatalogSchema ==
    [Name |-> "catalog",
     Columns |-> <<Column("id", FALSE), Column("name", TRUE), Column("price", FALSE)>>,
     Indexes |-> <<ClusteredDef, SecondaryDef>>,
     EnableFullText |-> TRUE]

ArticleSchema ==
    [Name |-> "articles",
     Columns |-> <<Column("id", FALSE), Column("title", TRUE), Column("content", TRUE)>>,
     Indexes |-> <<ClusteredDef>>,
     EnableFullText |-> TRUE]

\* products: ids 1..MaxKey, inserted with price 1, the last one named "B" and the
\* others "A"; an update sets the price to 2 and keeps the rest, or renames the
\* product ("A" to "B", "B" to "A"), or moves it to the next id
Product(i, name, price) == [id |-> IntV(i), name |-> StrV(name), price |-> FloatV(price)]
Products == {Product(i, IF i = MaxKey THEN <<66>> ELSE <<65>>, 1) : i \in 1..MaxKey}
NewProducts(old) ==
    {Product(old.id.v, old.name.v, 2),
     Product(old.id.v, IF old.name.v = <<65>> THEN <<66>> ELSE <<65>>, 2),
     Product((old.id.v % MaxKey) + 1, old.name.v, 2)}

\* articles: ids 1..MaxDoc, titled "Go" with content "Other", or titled in Han
\* script with content "the go"
Article(i, t) ==
    [id |-> IntV(i),
     title |-> StrV(IF t = 1 THEN <<71, 111>> ELSE <<20013, 25991>>),
     content |-> StrV(IF t = 1 THEN <<79, 116, 104, 101, 114>>
                      ELSE <<116, 104, 101, 32, 103, 111>>)]
Articles == {Article(i, t) : i \in 1..MaxDoc, t \in 1..2}

InsertInputs(c) == IF c.Schema.Name = "articles" THEN Articles ELSE Products
\* the updates of the catalog: the product is renamed or moved to the next id
Renamed(old) ==
    {Product(old.id.v, IF old.name.v = <<65>> THEN <<66>> ELSE <<65>>, 1),
     Product((old.id.v % MaxKey) + 1, old.name.v, 1)}
UpdateInputs(c, old) ==
    IF c.Schema.Name = "articles" THEN Articles
    ELSE IF c.Schema.Name = "catalog" THEN Renamed(old)
    ELSE NewProducts(old)

\* the queries callers search for: "the" and "go"
Queries == {<<116, 104, 101>>, <<103, 111>>}

\* the inputs of one Build call: up to MaxBuild rows with different ids, in any order
Perms(n) == {s \in [1..n -> 1..MaxKey] : \A i, j \in 1..n : i # j => s[i] # s[j]}
BuildInputs == {[i \in DOMAIN s |-> BuildRow(s[i])] : s \in UNION {Perms(n) : n \in 0..MaxBuild}}

-----------------------------------------------------------------------------
(* ClusteredIndexManager: a B+ tree whose nodes the manager keeps in a cache by
   identifier and writes to their files when an operation ends.  generateNodeID
   counts, so identifiers are the numbers 1, 2, ...  The cache holds up to 100
   nodes, more than the trees of the model have, so nothing is evicted. *)

MaxRows == 4       \* rows handed to one BuildIndex call, ids 1..MaxRows

\* the clustered index of the README: one ascending key field, page size PageSize
CimDef == [Name |-> "pk", Keys |-> <<[Name |-> "id", Ascending |-> TRUE]>>,
           IsUnique |-> TRUE, PageSize |-> PageSize]

NoCimMeta == [exists |-> FALSE, RootPageName |-> NoID, PagesCount |-> 0]

\* the number of cached nodes from which loadNode evicts
maxCacheSize == 100

NewClusteredIndexManager(indexDef) ==
    [indexDef |-> indexDef, rootNodeID |-> NoID, nodeCache |-> EmptyStorage,
     nextNodeID |-> 1, files |-> EmptyStorage, metadata |-> NoCimMeta,
     maxCacheSize |-> maxCacheSize]

cimExtractIndexKey(def, row) ==
    [i \in 1..Len(def.Keys) |->
        IF def.Keys[i].Name \in DOMAIN row THEN row[def.Keys[i].Name] ELSE NilV]

\* compareValues: nil first, values of one type by value, others by their %v text
cimCompareValues(v1, v2) ==
    IF v1.t = "nil" /\ v2.t = "nil" THEN 0
    ELSE IF v1.t = "nil" THEN -1
    ELSE IF v2.t = "nil" THEN 1
    ELSE IF v1.t # v2.t THEN StrCmp(FmtV(v1), FmtV(v2))
    ELSE IF v1.t = "str" THEN StrCmp(v1.v, v2.v)
    ELSE Sign3(v1.v, v2.v)

\* compareKeys of the manager: the first differing component decides, negated for a
\* descending field
RECURSIVE cimCompareKeysFrom(_, _, _, _)
cimCompareKeysFrom(def, k1, k2, i) ==
    IF i > Len(k1) \/ i > Len(k2) THEN Len(k1) - Len(k2)
    ELSE Bind(cimCompareValues(k1[i], k2[i]), LAMBDA cmp :
            IF cmp = 0 THEN cimCompareKeysFrom(def, k1, k2, i + 1)
            ELSE IF i <= Len(def.Keys) /\ ~def.Keys[i].Ascending THEN 0 - cmp
            ELSE cmp)
cimCompareKeys(def, k1, k2) == cimCompareKeysFrom(def, k1, k2, 1)

compareRowsByIndexKeys(def, row1, row2) ==
    cimCompareKeys(def, cimExtractIndexKey(def, row1), cimExtractIndexKey(def, row2))

\* sort.Slice by compareRowsByIndexKeys on rows with pairwise distinct keys
RECURSIVE SortedInsert(_, _, _)
SortedInsert(def, sorted, row) ==
    IF sorted = <<>> THEN <<row>>
    ELSE IF compareRowsByIndexKeys(def, row, Head(sorted)) < 0 THEN <<row>> \o sorted
    ELSE <<Head(sorted)>> \o SortedInsert(def, Tail(sorted), row)
RECURSIVE SortRows(_, _)
SortRows(def, data) ==
    IF data = <<>> THEN <<>> ELSE SortedInsert(def, SortRows(def, Tail(data)), Head(data))

\* loadNode: the cached node, else the node read from its file and then cached
cimCanLoad(c, id) == id \in DOMAIN c.nodeCache \cup DOMAIN c.files
cimPut(c, n) ==
    [c EXCEPT !.nodeCache = [id \in DOMAIN c.nodeCache \cup {n.ID} |->
                                IF id = n.ID THEN n ELSE c.nodeCache[id]]]
cimLoaded(c, id) == IF id \in DOMAIN c.nodeCache THEN c ELSE cimPut(c, c.files[id])
cimNode(c, id) == IF id \in DOMAIN c.nodeCache THEN c.nodeCache[id] ELSE c.files[id]

CRet(c, err) == [c |-> c, err |-> err]

\* the index of the first key greater than key, from i on: the child to descend to
\* and the position of a promoted key
RECURSIVE cimChildIndexFrom(_, _, _, _)
cimChildIndexFrom(def, keys, key, i) ==
    IF i >= Len(keys) \/ cimCompareKeys(def, key, keys[i + 1]) < 0 THEN i
    ELSE cimChildIndexFrom(def, keys, key, i + 1)

\* every child of right is loaded and told its new parent
RECURSIVE adoptChildren(_, _, _)
adoptChildren(c, right, i) ==
    IF i > Len(right.Values) THEN c
    ELSE IF ~cimCanLoad(c, right.Values[i]) THEN adoptChildren(c, right, i + 1)
    ELSE adoptChildren(cimPut(c, [cimNode(c, right.Values[i]) EXCEPT
                                     !.Parent = right.ID, !.IsDirty = TRUE]),
                       right, i + 1)

RECURSIVE promoteKey(_, _, _, _)
RECURSIVE splitInternalNode(_, _)

splitInternalNode(c, internalID) ==
    LET internal == cimNode(c, internalID)
        mid == Len(internal.Keys) \div 2
        rightID == c.nextNodeID
    IN Bind([NewBTreeNode(rightID, "internal", internal.PageSize) EXCEPT
                !.Keys = Drop(internal.Keys, mid + 1),
                !.Values = Drop(internal.Values, mid + 1),
                !.Parent = internal.Parent], LAMBDA right :
       Bind(adoptChildren([c EXCEPT !.nextNodeID = rightID + 1], right, 1), LAMBDA c1 :
       Bind(cimPut(c1, [cimNode(c1, internalID) EXCEPT
                           !.Keys = Take(internal.Keys, mid),
                           !.Values = Take(internal.Values, mid + 1),
                           !.IsDirty = TRUE]), LAMBDA c2 :
          promoteKey(cimPut(c2, right), internalID, internal.Keys[mid + 1], rightID))))

promoteKey(c, nodeID, key, rightNodeID) ==
    LET node == cimNode(c, nodeID)
    IN IF node.Parent = NoID THEN
           Bind(c.nextNodeID, LAMBDA newRootID :
           Bind([NewBTreeNode(newRootID, "internal", node.PageSize) EXCEPT
                    !.Keys = <<key>>, !.Values = <<nodeID, rightNodeID>>], LAMBDA newRoot :
           Bind(cimPut([c EXCEPT !.nextNodeID = newRootID + 1],
                       [node EXCEPT !.Parent = newRootID, !.IsDirty = TRUE]), LAMBDA c1 :
           Bind(IF cimCanLoad(c1, rightNodeID)
                THEN cimPut(c1, [cimNode(c1, rightNodeID) EXCEPT
                                    !.Parent = newRootID, !.IsDirty = TRUE])
                ELSE c1, LAMBDA c2 :
              CRet(cimPut([c2 EXCEPT !.rootNodeID = newRootID], newRoot), "ok")))))
       ELSE IF ~cimCanLoad(c, node.Parent) THEN CRet(c, "io")
       ELSE Bind(cimLoaded(c, node.Parent), LAMBDA c1 :
            Bind(cimNode(c1, node.Parent), LAMBDA parent :
            Bind(cimChildIndexFrom(c.indexDef, parent.Keys, key, 0), LAMBDA pos :
               IF pos + 1 > Len(parent.Values) THEN CRet(c1, "panic")
               ELSE Bind([parent EXCEPT !.Keys = InsertAt(@, pos, key),
                                        !.Values = InsertAt(@, pos + 1, rightNodeID),
                                        !.IsDirty = TRUE], LAMBDA p2 :
                       IF IsFull(p2) THEN splitInternalNode(cimPut(c1, p2), p2.ID)
                       ELSE CRet(cimPut(c1, p2), "ok")))))

splitLeafNode(c, leafID) ==
    LET leaf == cimNode(c, leafID)
        mid == Len(leaf.Keys) \div 2
        rightID == c.nextNodeID
    IN Bind([NewBTreeNode(rightID, "leaf", leaf.PageSize) EXCEPT
                !.Keys = Drop(leaf.Keys, mid), !.Values = Drop(leaf.Values, mid),
                !.Parent = leaf.Parent, !.Next = leaf.Next, !.Previous = leafID],
            LAMBDA right :
       Bind(cimPut([c EXCEPT !.nextNodeID = rightID + 1],
                   [leaf EXCEPT !.Keys = Take(@, mid), !.Values = Take(@, mid),
                                !.Next = rightID, !.IsDirty = TRUE]), LAMBDA c1 :
       Bind(IF right.Next # NoID /\ cimCanLoad(c1, right.Next)
            THEN cimPut(c1, [cimNode(c1, right.Next) EXCEPT
                                !.Previous = rightID, !.IsDirty = TRUE])
            ELSE c1, LAMBDA c2 :
          promoteKey(cimPut(c2, right), leafID, right.Keys[1], rightID))))

\* the position of a pair in a leaf: before the first greater key; a unique index
\* refuses an equal key
RECURSIVE leafPosFrom(_, _, _, _)
leafPosFrom(def, keys, key, pos) ==
    IF pos >= Len(keys) THEN [pos |-> pos, dup |-> FALSE]
    ELSE Bind(cimCompareKeys(def, key, keys[pos + 1]), LAMBDA cmp :
            IF cmp < 0 THEN [pos |-> pos, dup |-> FALSE]
            ELSE IF cmp = 0 /\ def.IsUnique THEN [pos |-> pos, dup |-> TRUE]
            ELSE leafPosFrom(def, keys, key, pos + 1))

insertIntoLeaf(c, leafID, key, value) ==
    Bind(cimNode(c, leafID), LAMBDA leaf :
    Bind(leafPosFrom(c.indexDef, leaf.Keys, key, 0), LAMBDA p :
       IF p.dup THEN CRet(c, "duplicate")
       ELSE Bind([leaf EXCEPT !.Keys = InsertAt(@, p.pos, key),
                              !.Values = InsertAt(@, p.pos, value),
                              !.IsDirty = TRUE], LAMBDA l2 :
               IF IsFull(l2) THEN splitLeafNode(cimPut(c, l2), leafID)
               ELSE CRet(cimPut(c, l2), "ok"))))

\* insertIntoNode with insertIntoInternal: descend from the node given
RECURSIVE insertIntoNode(_, _, _, _)
insertIntoNode(c, nodeID, key, value) ==
    Bind(cimNode(c, nodeID), LAMBDA node :
       IF IsLeaf(node) THEN insertIntoLeaf(c, nodeID, key, value)
       ELSE Bind(cimChildIndexFrom(c.indexDef, node.Keys, key, 0), LAMBDA childIndex :
               IF childIndex >= Len(node.Values) THEN CRet(c, "panic")
               ELSE IF ~cimCanLoad(c, node.Values[childIndex + 1]) THEN CRet(c, "io")
               ELSE insertIntoNode(cimLoaded(c, node.Values[childIndex + 1]),
                                   node.Values[childIndex + 1], key, value)))

saveAllDirtyNodes(c) ==
    [c EXCEPT !.files = [id \in DOMAIN c.files \cup
                                {x \in DOMAIN c.nodeCache : c.nodeCache[x].IsDirty} |->
                            IF id \in DOMAIN c.nodeCache /\ c.nodeCache[id].IsDirty
                            THEN NodeFile(c.nodeCache[id]) ELSE c.files[id]],
              !.nodeCache = [id \in DOMAIN c.nodeCache |-> Saved(c.nodeCache[id])]]

\* the loop of BuildIndex: every row is inserted into the node created as the root
RECURSIVE insertSorted(_, _, _, _)
insertSorted(c, rootID, sortedRows, i) ==
    IF i > Len(sortedRows) THEN CRet(c, "ok")
    ELSE Bind(insertIntoNode(c, rootID, cimExtractIndexKey(c.indexDef, sortedRows[i]),
                             sortedRows[i]), LAMBDA r :
            IF r.err # "ok" THEN r ELSE insertSorted(r.c, rootID, sortedRows, i + 1))

BuildIndex(c, data) ==
    Bind(cimPut([c EXCEPT !.files = EmptyStorage, !.metadata = NoCimMeta,
                          !.nodeCache = EmptyStorage, !.nextNodeID = 2,
                          !.rootNodeID = 1],
                NewBTreeNode(1, "leaf", c.indexDef.PageSize)), LAMBDA c1 :
    Bind(insertSorted(c1, 1, SortRows(c.indexDef, data), 1), LAMBDA r :
       IF r.err # "ok" THEN r ELSE CRet(saveAllDirtyNodes(r.c), "ok")))

\* Close: dirty nodes and metadata.json are written, the cache is emptied
Close(c) ==
    Bind(saveAllDirtyNodes(c), LAMBDA c1 :
       [c1 EXCEPT !.metadata = [exists |-> TRUE, RootPageName |-> c.rootNodeID,
                                PagesCount |-> Cardinality(DOMAIN c.nodeCache)],
                  !.nodeCache = EmptyStorage])

SRet(c, res, err) == [c |-> c, res |-> res, err |-> err]

\* findLeftmostLeaf: the first child pointers from the root down
RECURSIVE leftmostFrom(_, _)
leftmostFrom(c, id) ==
    IF ~cimCanLoad(c, id) THEN [c |-> c, id |-> NoID, err |-> "io"]
    ELSE Bind(cimLoaded(c, id), LAMBDA c1 :
            IF IsLeaf(cimNode(c1, id)) THEN [c |-> c1, id |-> id, err |-> "ok"]
            ELSE IF Len(cimNode(c1, id).Values) = 0
                 THEN [c |-> c1, id |-> NoID, err |-> "panic"]
            ELSE leftmostFrom(c1, cimNode(c1, id).Values[1]))

\* the leaf walk of Search along the next pointers; a walk that returns to a leaf
\* it has left does not end
RECURSIVE walkNext(_, _, _, _)
walkNext(c, id, acc, seen) ==
    Bind(cimNode(c, id), LAMBDA current :
       IF current.Next = NoID THEN SRet(c, acc \o current.Values, "ok")
       ELSE IF current.Next \in seen THEN SRet(c, <<>>, "hang")
       ELSE IF ~cimCanLoad(c, current.Next) THEN SRet(c, <<>>, "io")
       ELSE walkNext(cimLoaded(c, current.Next), current.Next,
                     acc \o current.Values, seen \cup {id}))

\* Search(SearchOptions{Ascending: true}): no start key, no end key, no limit
cimSearch(c) ==
    IF c.rootNodeID = NoID THEN SRet(c, <<>>, "ok")
    ELSE Bind(leftmostFrom(c, c.rootNodeID), LAMBDA l :
            IF l.err # "ok" THEN SRet(l.c, <<>>, l.err)
            ELSE walkNext(l.c, l.id, <<>>, {}))

\* the checks of validateNode on one node; a bound of <<>> stands for nil
nodeInvalid(def, node, minKey, maxKey) ==
    \/ IsLeaf(node) /\ Len(node.Keys) # Len(node.Values)
    \/ ~IsLeaf(node) /\ Len(node.Values) # Len(node.Keys) + 1
    \/ \E i \in 2..Len(node.Keys) : cimCompareKeys(def, node.Keys[i - 1], node.Keys[i]) >= 0
    \/ minKey # <<>> /\ Len(node.Keys) > 0 /\ cimCompareKeys(def, node.Keys[1], minKey) < 0
    \/ maxKey # <<>> /\ Len(node.Keys) > 0
          /\ cimCompareKeys(def, node.Keys[Len(node.Keys)], maxKey) >= 0

RECURSIVE validateNode(_, _, _, _)
RECURSIVE validateChildren(_, _, _)

validateChildren(c, node, i) ==
    IF i > Len(node.Values) THEN CRet(c, "ok")
    ELSE Bind(validateNode(c, node.Values[i],
                           IF i > 1 THEN node.Keys[i - 1] ELSE <<>>,
                           IF i <= Len(node.Keys) THEN node.Keys[i] ELSE <<>>), LAMBDA r :
            IF r.err # "ok" THEN r ELSE validateChildren(r.c, node, i + 1))

validateNode(c, nodeID, minKey, maxKey) ==
    IF ~cimCanLoad(c, nodeID) THEN CRet(c, "io")
    ELSE Bind(cimLoaded(c, nodeID), LAMBDA c1 :
         Bind(cimNode(c1, nodeID), LAMBDA node :
            IF nodeInvalid(c.indexDef, node, minKey, maxKey) THEN CRet(c1, "invalid")
            ELSE IF IsLeaf(node) THEN CRet(c1, "ok")
            ELSE validateChildren(c1, node, 1)))

Validate(c) ==
    IF c.rootNodeID = NoID THEN CRet(c, "ok")
    ELSE validateNode(c, c.rootNodeID, <<>>, <<>>)

-----------------------------------------------------------------------------
(* ClusteredIndexManager with eviction.  The code holds nodes by pointer: a node
   that loadNode has evicted stays in the hands of the caller that loaded it, and
   a later load of its identifier makes a second node from the file.  During one
   operation the nodes are therefore the entries of a heap, a pointer is an index
   into it, and the cache maps identifiers to pointers.  The entry loadNode
   evicts is the first of a range over a Go map, any entry: the operation is
   given the choices it makes, one number for each eviction in turn. *)

MaxCache == 2      \* nodes the cache of a manager holds before loadNode evicts
MaxPagedKey == 5   \* integer key values 1..MaxPagedKey handed to InsertRow
MaxPagedNodes == 4 \* node identifiers one manager generates
MaxEvict == 2      \* choices of one operation; their sequence is read in a circle

\* the n-th identifier of S in ascending order, counted in a circle
Pick(S, n) ==
    CHOOSE id \in S : Cardinality({x \in S : x < id}) = (n - 1) % Cardinality(S)

\* the nodes of the cache in a heap, to start an operation
RECURSIVE heapOf(_, _)
heapOf(nodeCache, S) ==
    IF S = {} THEN <<>>
    ELSE LET id == CHOOSE x \in S : \A y \in S : x >= y
         IN Append(heapOf(nodeCache, S \ {id}), nodeCache[id])

Enter(c, choices) ==
    [indexDef |-> c.indexDef, rootNodeID |-> c.rootNodeID, nextNodeID |-> c.nextNodeID,
     files |-> c.files, metadata |-> c.metadata, maxCacheSize |-> c.maxCacheSize,
     heap |-> heapOf(c.nodeCache, DOMAIN c.nodeCache),
     nodeCache |-> [id \in DOMAIN c.nodeCache |->
                       Cardinality({x \in DOMAIN c.nodeCache : x <= id})],
     choices |-> choices, evictions |-> 0, dropped |-> {}]

\* the manager an operation leaves, and the dirty nodes it evicted
Leave(w, err) ==
    [c |-> [indexDef |-> w.indexDef, rootNodeID |-> w.rootNodeID,
            nodeCache |-> [id \in DOMAIN w.nodeCache |-> w.heap[w.nodeCache[id]]],
            nextNodeID |-> w.nextNodeID, files |-> w.files, metadata |-> w.metadata,
            maxCacheSize |-> w.maxCacheSize],
     dropped |-> w.dropped, err |-> err]

\* a write through a pointer
Set(w, ptr, node) == [w EXCEPT !.heap[ptr] = node]

\* cim.nodeCache[node.ID] = node for a node just made
cacheNew(w, node) ==
    [w EXCEPT !.heap = Append(@, node),
              !.nodeCache = [id \in DOMAIN w.nodeCache \cup {node.ID} |->
                                IF id = node.ID THEN Len(w.heap) + 1 ELSE w.nodeCache[id]]]

LRet(w, ptr, err) == [w |-> w, ptr |-> ptr, err |-> err]

\* loadNode: the cached node; else the node of the file, cached after an entry of
\* a full cache has been deleted, dirty or not
loadNode(w, nodeID) ==
    IF nodeID \in DOMAIN w.nodeCache THEN LRet(w, w.nodeCache[nodeID], "ok")
    ELSE IF nodeID \notin DOMAIN w.files THEN LRet(w, 0, "io")
    ELSE LET full == Cardinality(DOMAIN w.nodeCache) >= w.maxCacheSize
             victim == IF full
                       THEN Pick(DOMAIN w.nodeCache,
                                 w.choices[(w.evictions % Len(w.choices)) + 1])
                       ELSE NoID
             kept == DOMAIN w.nodeCache \ {victim}
         IN LRet([w EXCEPT !.heap = Append(@, w.files[nodeID]),
                           !.nodeCache = [id \in kept \cup {nodeID} |->
                                             IF id = nodeID THEN Len(w.heap) + 1
                                             ELSE w.nodeCache[id]],
                           !.evictions = IF full THEN @ + 1 ELSE @,
                           !.dropped = IF full /\ w.heap[w.nodeCache[victim]].IsDirty
                                       THEN @ \cup {victim} ELSE @],
                 Len(w.heap) + 1, "ok")

WRet(w, err) == [w |-> w, err |-> err]

\* loads the node and, when that succeeds, writes Change of it through the pointer
loadAndSet(w, nodeID, Change(_)) ==
    Bind(loadNode(w, nodeID), LAMBDA r :
       IF r.err # "ok" THEN r.w ELSE Set(r.w, r.ptr, Change(r.w.heap[r.ptr])))

RECURSIVE pagedPromoteKey(_, _, _, _)
RECURSIVE pagedSplitInternalNode(_, _)

\* the loop of splitInternalNode over the children of the new right node
RECURSIVE pagedAdoptChildren(_, _, _)
pagedAdoptChildren(w, right, i) ==
    IF i > Len(right.Values) THEN w
    ELSE pagedAdoptChildren(
             loadAndSet(w, right.Values[i],
                        LAMBDA child : [child EXCEPT !.Parent = right.ID, !.IsDirty = TRUE]),
             right, i + 1)

pagedSplitInternalNode(w, ptr) ==
    LET internal == w.heap[ptr]
        mid == Len(internal.Keys) \div 2
        rightID == w.nextNodeID
    IN Bind([NewBTreeNode(rightID, "internal", internal.PageSize) EXCEPT
                !.Keys = Drop(internal.Keys, mid + 1),
                !.Values = Drop(internal.Values, mid + 1),
                !.Parent = internal.Parent], LAMBDA right :
       Bind(pagedAdoptChildren([w EXCEPT !.nextNodeID = rightID + 1], right, 1), LAMBDA w1 :
       Bind(Set(w1, ptr, [w1.heap[ptr] EXCEPT !.Keys = Take(@, mid),
                                               !.Values = Take(@, mid + 1),
                                               !.IsDirty = TRUE]), LAMBDA w2 :
          pagedPromoteKey(cacheNew(w2, right), ptr, internal.Keys[mid + 1], rightID))))

pagedPromoteKey(w, ptr, key, rightNodeID) ==
    LET node == w.heap[ptr]
    IN IF node.Parent = NoID THEN
           Bind(w.nextNodeID, LAMBDA newRootID :
           Bind([NewBTreeNode(newRootID, "internal", node.PageSize) EXCEPT
                    !.Keys = <<key>>, !.Values = <<node.ID, rightNodeID>>], LAMBDA newRoot :
           Bind(Set([w EXCEPT !.nextNodeID = newRootID + 1], ptr,
                    [node EXCEPT !.Parent = newRootID, !.IsDirty = TRUE]), LAMBDA w1 :
           Bind(loadAndSet(w1, rightNodeID,
                           LAMBDA rightNode : [rightNode EXCEPT !.Parent = newRootID,
                                                                !.IsDirty = TRUE]),
                LAMBDA w2 :
              WRet(cacheNew([w2 EXCEPT !.rootNodeID = newRootID], newRoot), "ok")))))
       ELSE Bind(loadNode(w, node.Parent), LAMBDA r :
            IF r.err # "ok" THEN WRet(r.w, "io")
            ELSE Bind(r.w.heap[r.ptr], LAMBDA parent :
                 Bind(cimChildIndexFrom(w.indexDef, parent.Keys, key, 0), LAMBDA pos :
                    IF pos + 1 > Len(parent.Values) THEN WRet(r.w, "panic")
                    ELSE Bind([parent EXCEPT !.Keys = InsertAt(@, pos, key),
                                             !.Values = InsertAt(@, pos + 1, rightNodeID),
                                             !.IsDirty = TRUE], LAMBDA p2 :
                            IF IsFull(p2) THEN pagedSplitInternalNode(Set(r.w, r.ptr, p2), r.ptr)
                            ELSE WRet(Set(r.w, r.ptr, p2), "ok")))))

pagedSplitLeafNode(w, ptr) ==
    LET leaf == w.heap[ptr]
        mid == Len(leaf.Keys) \div 2
        rightID == w.nextNodeID
    IN Bind([NewBTreeNode(rightID, "leaf", leaf.PageSize) EXCEPT
                !.Keys = Drop(leaf.Keys, mid), !.Values = Drop(leaf.Values, mid),
                !.Parent = leaf.Parent, !.Next = leaf.Next, !.Previous = leaf.ID],
            LAMBDA right :
       Bind(Set([w EXCEPT !.nextNodeID = rightID + 1], ptr,
                [leaf EXCEPT !.Keys = Take(@, mid), !.Values = Take(@, mid),
                             !.Next = rightID, !.IsDirty = TRUE]), LAMBDA w1 :
       Bind(IF right.Next # NoID
            THEN loadAndSet(w1, right.Next,
                            LAMBDA nextNode : [nextNode EXCEPT !.Previous = rightID,
                                                               !.IsDirty = TRUE])
            ELSE w1, LAMBDA w2 :
          pagedPromoteKey(cacheNew(w2, right), ptr, right.Keys[1], rightID))))

pagedInsertIntoLeaf(w, ptr, key, value) ==
    Bind(w.heap[ptr], LAMBDA leaf :
    Bind(leafPosFrom(w.indexDef, leaf.Keys, key, 0), LAMBDA p :
       IF p.dup THEN WRet(w, "duplicate")
       ELSE Bind(Set(w, ptr, [leaf EXCEPT !.Keys = InsertAt(@, p.pos, key),
                                          !.Values = InsertAt(@, p.pos, value),
                                          !.IsDirty = TRUE]), LAMBDA w1 :
               IF IsFull(w1.heap[ptr]) THEN pagedSplitLeafNode(w1, ptr)
               ELSE WRet(w1, "ok"))))

RECURSIVE pagedInsertIntoNode(_, _, _, _)
pagedInsertIntoNode(w, ptr, key, value) ==
    Bind(w.heap[ptr], LAMBDA node :
       IF IsLeaf(node) THEN pagedInsertIntoLeaf(w, ptr, key, value)
       ELSE Bind(cimChildIndexFrom(w.indexDef, node.Keys, key, 0), LAMBDA childIndex :
               IF childIndex >= Len(node.Values) THEN WRet(w, "panic")
               ELSE Bind(loadNode(w, node.Values[childIndex + 1]), LAMBDA r :
                       IF r.err # "ok" THEN WRet(r.w, "io")
                       ELSE pagedInsertIntoNode(r.w, r.ptr, key, value))))

\* saveAllDirtyNodes over the nodes the cache holds
pagedSaveAllDirtyNodes(w) ==
    LET dirty == {id \in DOMAIN w.nodeCache : w.heap[w.nodeCache[id]].IsDirty}
        written == {w.heap[w.nodeCache[id]].ID : id \in dirty}
        nodeOf(fileID) == w.heap[w.nodeCache[CHOOSE id \in dirty :
                                                 w.heap[w.nodeCache[id]].ID = fileID]]
    IN [w EXCEPT !.files = [fileID \in DOMAIN w.files \cup written |->
                               IF fileID \in written THEN NodeFile(nodeOf(fileID))
                               ELSE w.files[fileID]],
                 !.heap = [ptr \in DOMAIN w.heap |->
                              IF \E id \in dirty : w.nodeCache[id] = ptr
                              THEN Saved(w.heap[ptr]) ELSE w.heap[ptr]]]

InsertRow(c, row, choices) ==
    Bind(Enter(c, choices), LAMBDA w0 :
    Bind(IF w0.rootNodeID = NoID
         THEN cacheNew([w0 EXCEPT !.rootNodeID = w0.nextNodeID,
                                  !.nextNodeID = w0.nextNodeID + 1],
                       NewBTreeNode(w0.nextNodeID, "leaf", w0.indexDef.PageSize))
         ELSE w0, LAMBDA w1 :
    Bind(loadNode(w1, w1.rootNodeID), LAMBDA l :
       IF l.err # "ok" THEN Leave(l.w, "io")
       ELSE Bind(pagedInsertIntoNode(l.w, l.ptr, cimExtractIndexKey(c.indexDef, row), row),
                 LAMBDA r :
               IF r.err # "ok" THEN Leave(r.w, r.err)
               ELSE Leave(pagedSaveAllDirtyNodes(r.w), "ok")))))

-----------------------------------------------------------------------------
(* Ghost state: what the caller was told is stored *)

EmptyLive(def) == [k \in KeysOf(def) |-> <<>>]

RECURSIVE liveOf(_, _, _)
liveOf(def, data, i) ==
    IF i = 0 THEN EmptyLive(def)
    ELSE LET l == liveOf(def, data, i - 1)
             k == extractIndexKey(data[i], def)
         IN [l EXCEPT ![k] = Append(@, IndexValue(data[i], def))]

RECURSIVE SumLen(_, _)
SumLen(f, S) ==
    IF S = {} THEN 0 ELSE LET k == CHOOSE x \in S : TRUE IN Len(f[k]) + SumLen(f, S \ {k})

\* the pairs the leaf files of an index directory hold, and the exploration bound on
\* one index: at most MaxNodes node files and MaxLive stored pairs
StoredPairs(st) == SumLen([id \in DOMAIN st |-> IF IsLeaf(st[id]) THEN st[id].Keys ELSE <<>>],
                          DOMAIN st)
Fits(m) == m.bTree.ids <= MaxNodes /\ StoredPairs(m.bTree.st) <= MaxLive

NoRow == [id |-> NilV, name |-> NilV]
Op(name, key, old, row, err) ==
    [op |-> name, key |-> key, old |-> old, row |-> row, err |-> err]

-----------------------------------------------------------------------------
(* The parts of the state a specification does not drive stay as they start *)

NoHandles == <<>>
NoResult == [found |-> FALSE, docScores |-> NoFiles]
NoTxn == [pc |-> "idle", old |-> NoRow, new |-> NoRow,
          before |-> [q \in {} |-> NoResult], after |-> [q \in {} |-> NoResult]]
NoSeen == [query |-> <<>>, result |-> NoResult, during |-> FALSE]
NoDatabase == [base |-> FALSE, dirs |-> {}, schemas |-> NoFiles, collections |-> {}, ids |-> 0]
NoLock == [w |-> 0, locked |-> FALSE, r |-> <<>>]
NoThreads == <<>>
NoCall == [fn |-> "none", input |-> <<>>, n |-> 0, result |-> <<>>]
NoInverted == [idx |-> NewInvertedIndex(NoFiles, 3), opened |-> 0,
               fn |-> "none", docID |-> <<>>, text |-> <<>>]

OneIndex == handles = NoHandles /\ txn = NoTxn /\ observed = NoSeen
OneThread == db = NoDatabase /\ mu = NoLock /\ pc = NoThreads
NoCim == [mgr |-> NewClusteredIndexManager(CimDef), fn |-> "none", data |-> <<>>,
          built |-> "none", res |-> <<>>, err |-> "ok"]
NoFunction == call = NoCall /\ inverted = NoInverted /\ cim = NoCim

-----------------------------------------------------------------------------
(* Index-level specification: one IndexManager driven directly *)

InitIndex(def) ==
    /\ im = NewIndexManager(def, EmptyStorage, NoMeta, 0)
    /\ live = EmptyLive(def)
    /\ coll = NewCollection(ProductSchema, EmptyDisk(ProductSchema))
    /\ rows = {}
    /\ last = Op("none", NilKey, NoRow, NoRow, "ok")
    /\ crashed = FALSE
    /\ OneIndex /\ OneThread /\ NoFunction

Init == InitIndex(ClusteredDef)

InitDup == InitIndex(SecondaryDef)

IMInsert ==
    \E row \in InsertRows, key \in KeysOf(im.indexDef) :
        /\ key = extractIndexKey(row, im.indexDef)
        /\ ~crashed
        /\ \E r \in {IndexManagerInsert(im, key, row)} :
           \E m \in {Normalize(r.im)} :
              /\ Fits(m)
              /\ im' = m
              /\ crashed' = (r.err = "panic")
              /\ live' = IF r.err = "ok"
                         THEN [live EXCEPT ![key] = Append(@, IndexValue(row, im.indexDef))]
                         ELSE live
              /\ last' = Op("Insert", key, NoRow, row, r.err)
              /\ UNCHANGED <<coll, rows, elsewhere>>

IMDelete ==
    \E key \in KeysOf(im.indexDef) :
        /\ ~crashed
        /\ \E r \in {IndexManagerDelete(im, key)} :
              /\ im' = Normalize(r.im)
              /\ crashed' = (r.err = "panic")
              /\ live' = IF r.err = "ok" THEN [live EXCEPT ![key] = <<>>] ELSE live
              /\ last' = Op("Delete", key, NoRow, NoRow, r.err)
              /\ UNCHANGED <<coll, rows, elsewhere>>

\* a failed Update that changes the key may already have deleted the old key
IMUpdate ==
    \E oldKey \in KeysOf(im.indexDef), row \in UpdateRows, newKey \in KeysOf(im.indexDef) :
        /\ newKey = extractIndexKey(row, im.indexDef)
        /\ ~crashed
        /\ \E r \in {IndexManagerUpdate(im, oldKey, row, newKey, row)} :
           \E m \in {Normalize(r.im)} :
              /\ Fits(m)
              /\ im' = m
              /\ crashed' = (r.err = "panic")
              /\ live' = IF r.err = "ok"
                         THEN [live EXCEPT ![oldKey] = <<>>,
                                           ![newKey] = IF oldKey = newKey
                                                       THEN <<IndexValue(row, im.indexDef)>>
                                                       ELSE Append(live[newKey],
                                                                   IndexValue(row, im.indexDef))]
                         ELSE IF oldKey # newKey THEN [live EXCEPT ![oldKey] = <<>>]
                         ELSE live
              /\ last' = Op("Update", oldKey, NoRow, row, r.err)
              /\ UNCHANGED <<coll, rows, elsewhere>>

IMBuild ==
    \E data \in BuildInputs :
        /\ ~crashed
        /\ \E r \in {Build(im, data)} :
              /\ im' = Normalize(r.im)
              /\ crashed' = (r.err = "panic")
              /\ live' = IF r.err = "ok" THEN liveOf(im.indexDef, data, Len(data))
                         ELSE EmptyLive(im.indexDef)
              /\ last' = Op("Build", NilKey, NoRow, NoRow, r.err)
              /\ UNCHANGED <<coll, rows, elsewhere>>

Next == IMInsert \/ IMDelete \/ IMUpdate \/ IMBuild

Spec == Init /\ [][Next]_vars

\* callers that only insert and delete, on the clustered and on the secondary index
NextInsDel == IMInsert \/ IMDelete

SpecInsDel == Init /\ [][NextInsDel]_vars

SpecDupInsDel == InitDup /\ [][NextInsDel]_vars

\* Update with one of the rows callers insert as the new value: the record under
\* oldKey is given the key of the row.  No operation of the tree reads a value, so
\* these updates reach every arrangement of keys that updates to other values reach.
IMRekey ==
    \E oldKey \in KeysOf(im.indexDef), row \in InsertRows, newKey \in KeysOf(im.indexDef) :
        /\ newKey = extractIndexKey(row, im.indexDef)
        /\ ~crashed
        /\ \E r \in {IndexManagerUpdate(im, oldKey, row, newKey, row)} :
           \E m \in {Normalize(r.im)} :
              /\ Fits(m)
              /\ im' = m
              /\ crashed' = (r.err = "panic")
              /\ live' = IF r.err = "ok"
                         THEN [live EXCEPT ![oldKey] = <<>>,
                                           ![newKey] = IF oldKey = newKey
                                                       THEN <<IndexValue(row, im.indexDef)>>
                                                       ELSE Append(live[newKey],
                                                                   IndexValue(row, im.indexDef))]
                         ELSE IF oldKey # newKey THEN [live EXCEPT ![oldKey] = <<>>]
                         ELSE live
              /\ last' = Op("Update", oldKey, NoRow, row, r.err)
              /\ UNCHANGED <<coll, rows, elsewhere>>

\* callers that insert, update and delete
NextInsUpdDel == IMInsert \/ IMRekey \/ IMDelete

SpecInsUpdDel == Init /\ [][NextInsUpdDel]_vars

\* callers that build, insert and delete
NextBuildInsDel == IMBuild \/ IMInsert \/ IMDelete

SpecBuildInsDel == Init /\ [][NextBuildInsDel]_vars

-----------------------------------------------------------------------------
(* Collection-level specifications: one collection handle, reopened at will *)

InitCollection(schema) ==
    /\ im = NewIndexManager(ClusteredDef, EmptyStorage, NoMeta, 0)
    /\ live = EmptyLive(ClusteredDef)
    /\ coll = NewCollection(schema, EmptyDisk(schema))
    /\ rows = {}
    /\ last = Op("none", NilKey, NoRow, NoRow, "ok")
    /\ crashed = FALSE
    /\ OneIndex /\ OneThread /\ NoFunction

InitProducts == InitCollection(ProductSchema)

InitArticles == InitCollection(ArticleSchema)

PrimaryKey(row) == extractIndexKey(row, ClusteredDef)

\* the rows inserted or updated to and not deleted since are in rows: callers update
\* and delete records they hold

NormalizeColl(c) ==
    [c EXCEPT !.clusteredIndex = Normalize(@),
              !.nonClusteredIndexes = [i \in DOMAIN @ |-> Normalize(@[i])]]

\* the exploration bound on a collection: each index fits, and no posting list counts
\* a document more than MaxFreq times
FitsColl(c) ==
    /\ Fits(c.clusteredIndex)
    /\ \A i \in DOMAIN c.nonClusteredIndexes : Fits(c.nonClusteredIndexes[i])
    /\ \A fn \in DOMAIN c.fullTextIndex.files :
           \A d \in DOMAIN c.fullTextIndex.files[fn] : c.fullTextIndex.files[fn][d] <= MaxFreq

\* the caller of a collection stops at the first error it is returned
Running == ~crashed /\ last.err = "ok"

CInsert ==
    \E row \in InsertInputs(coll) :
        /\ Running
        /\ \E r \in {CollectionInsert(coll, row)} :
           \E c \in {NormalizeColl(r.coll)} :
              /\ FitsColl(c)
              /\ coll' = c
              /\ crashed' = (r.err = "panic")
              /\ rows' = IF r.err = "ok" THEN rows \cup {row} ELSE rows
              /\ last' = Op("Insert", PrimaryKey(row), NoRow, row, r.err)
              /\ UNCHANGED <<im, live, elsewhere>>

CUpdate ==
    \E old \in rows : \E new \in UpdateInputs(coll, old) :
        /\ Running
        /\ \E r \in {CollectionUpdate(coll, old, new)} :
           \E c \in {NormalizeColl(r.coll)} :
              /\ FitsColl(c)
              /\ coll' = c
              /\ crashed' = (r.err = "panic")
              /\ rows' = IF r.err = "ok"
                         THEN {q \in rows : PrimaryKey(q) # PrimaryKey(old)} \cup {new}
                         ELSE rows
              /\ last' = Op("Update", PrimaryKey(old), old, new, r.err)
              /\ UNCHANGED <<im, live, elsewhere>>

CDelete ==
    \E row \in rows :
        /\ Running
        /\ \E r \in {CollectionDelete(coll, row)} :
              /\ coll' = NormalizeColl(r.coll)
              /\ crashed' = (r.err = "panic")
              /\ rows' = IF r.err = "ok"
                         THEN {q \in rows : PrimaryKey(q) # PrimaryKey(row)}
                         ELSE rows
              /\ last' = Op("Delete", PrimaryKey(row), row, NoRow, r.err)
              /\ UNCHANGED <<im, live, elsewhere>>

\* a search loads the posting lists it reads into the cache of the handle
CSearchFullText ==
    \E query \in Queries :
        /\ Running
        /\ \E r \in {SearchFullText(coll, query)} :
              /\ coll' = [coll EXCEPT !.fullTextIndex = r.idx]
              /\ last' = Op("SearchFullText", NilKey, NoRow, NoRow, r.err)
              /\ UNCHANGED <<im, live, rows, crashed, elsewhere>>

\* the handle is dropped and the collection opened again on the same directory
CReopen ==
    /\ Running
    /\ coll' = NewCollection(coll.Schema, Disk(coll))
    /\ last' = Op("Reopen", NilKey, NoRow, NoRow, "ok")
    /\ UNCHANGED <<im, live, rows, crashed, elsewhere>>

NextColl == CInsert \/ CUpdate \/ CDelete

SpecColl == InitProducts /\ [][NextColl]_vars

NextText == CInsert \/ CUpdate \/ CDelete \/ CSearchFullText \/ CReopen

SpecText == InitArticles /\ [][NextText]_vars

InitCatalog == InitCollection(CatalogSchema)

SpecCatalog == InitCatalog /\ [][NextColl]_vars

-----------------------------------------------------------------------------
(* Two handles on one collection.  Each GetCollection call builds a new        *)
(* Collection with its own lock, its own IndexManagers and its own inverted    *)
(* index; the handles share the files of the collection directory and nothing  *)
(* else.  The operations of the two handles run one after the other.           *)

IndexAt(schema, name) == CHOOSE i \in DOMAIN schema.Indexes : schema.Indexes[i].Name = name

\* the manager m of a handle once another handle wrote the index directory d: the
\* node files and root.meta are those of d, the root the tree holds in memory is not
OnDisk(m, d) == [m EXCEPT !.bTree.st = d.st, !.bTree.ids = d.ids, !.meta = d.meta]

Sees(c, disk) ==
    [c EXCEPT !.clusteredIndex = OnDisk(@, disk.index[IndexAt(c.Schema, @.indexDef.Name)]),
              !.nonClusteredIndexes =
                  [i \in DOMAIN @ |->
                      OnDisk(@[i], disk.index[IndexAt(c.Schema, @[i].indexDef.Name)])],
              !.fullTextIndex.files = disk.fulltext]

\* the handle GetCollection returns on the directory the handles have written
GetCollection(hs) == NewCollection(hs[1].Schema, Disk(hs[1]))

Handles == {1, 2}

InitHandles ==
    /\ im = NewIndexManager(ClusteredDef, EmptyStorage, NoMeta, 0)
    /\ live = EmptyLive(ClusteredDef)
    /\ coll = NewCollection(ProductSchema, EmptyDisk(ProductSchema))
    /\ rows = {}
    /\ last = Op("none", NilKey, NoRow, NoRow, "ok")
    /\ crashed = FALSE
    /\ handles = [h \in Handles |-> NewCollection(ProductSchema, EmptyDisk(ProductSchema))]
    /\ txn = NoTxn /\ observed = NoSeen
    /\ OneThread /\ NoFunction

HInsert ==
    \E h \in Handles, row \in Products :
        /\ ~crashed
        /\ \E r \in {CollectionInsert(handles[h], row)} :
              /\ FitsColl(r.coll)
              /\ handles' = [k \in Handles |->
                                IF k = h THEN r.coll ELSE Sees(handles[k], Disk(r.coll))]
              /\ crashed' = (r.err = "panic")
              /\ rows' = IF r.err = "ok" THEN rows \cup {row} ELSE rows
              /\ last' = Op("Insert", PrimaryKey(row), NoRow, row, r.err)
              /\ UNCHANGED <<im, live, coll, txn, observed, db, mu, pc, call, inverted, cim>>

HGetCollection ==
    \E h \in Handles :
        /\ ~crashed
        /\ handles' = [handles EXCEPT ![h] = GetCollection(handles)]
        /\ last' = Op("GetCollection", NilKey, NoRow, NoRow, "ok")
        /\ UNCHANGED <<im, live, coll, rows, crashed, txn, observed, db, mu, pc, call, inverted, cim>>

NextHandles == HInsert \/ HGetCollection

SpecHandles == InitHandles /\ [][NextHandles]_vars

-----------------------------------------------------------------------------
(* A writer and a reader on one handle.  Collection.Update holds c.mu from its *)
(* first line to its return; inside it RemoveDocument and AddDocument each    *)
(* take and release idx.mu.  Collection.SearchFullText does not take c.mu: it *)
(* runs under idx.mu.RLock alone, so it runs whenever no RemoveDocument or    *)
(* AddDocument is in progress.  A step of the model is one critical section   *)
(* of idx.mu, or the part of Update that precedes the first one.              *)

\* what a caller of SearchFullText is returned
Result(r) == [found |-> r.found, docScores |-> r.docScores]

\* Collection.Update up to the inverted index: the clustered index, then the
\* secondary indexes
UpdateIndexes(c, oldRow, newRow) ==
    Bind(extractIndexKey(oldRow, c.clusteredIndex.indexDef), LAMBDA oldKey :
    Bind(extractIndexKey(newRow, c.clusteredIndex.indexDef), LAMBDA newKey :
    Bind(IndexManagerUpdate(c.clusteredIndex, oldKey, oldRow, newKey, newRow), LAMBDA r1 :
       IF r1.err # "ok" THEN [coll |-> [c EXCEPT !.clusteredIndex = r1.im], err |-> r1.err]
       ELSE Bind(forEachSecondary(c.nonClusteredIndexes, 1, "Update", oldRow, newRow),
                 LAMBDA r2 :
               [coll |-> [c EXCEPT !.clusteredIndex = r1.im,
                                   !.nonClusteredIndexes = r2.ims],
                err |-> r2.err]))))

\* the writer enters Update: c.mu.Lock, then the indexes; an error returns at once
UpdateBegin ==
    \E old \in rows : \E new \in UpdateInputs(coll, old) :
        /\ Running /\ txn.pc = "idle"
        /\ FitsColl(NormalizeColl(CollectionUpdate(coll, old, new).coll))
        /\ \E r \in {UpdateIndexes(coll, old, new)} :
              /\ coll' = NormalizeColl(r.coll)
              /\ crashed' = (r.err = "panic")
              /\ txn' = IF r.err = "ok" /\ coll.Schema.EnableFullText
                         THEN [pc |-> "indexed", old |-> old, new |-> new,
                               before |-> [q \in Queries |-> Result(SearchFullText(coll, q))],
                               after |-> [q \in Queries |->
                                   Result(SearchFullText(CollectionUpdate(coll, old, new).coll,
                                                         q))]]
                         ELSE NoTxn
              /\ rows' = IF r.err = "ok" /\ ~coll.Schema.EnableFullText
                         THEN {q \in rows : PrimaryKey(q) # PrimaryKey(old)} \cup {new}
                         ELSE rows
              /\ last' = IF r.err = "ok" /\ coll.Schema.EnableFullText THEN last
                         ELSE Op("Update", PrimaryKey(old), old, new, r.err)
              /\ observed' = NoSeen
              /\ UNCHANGED <<im, live, handles, db, mu, pc, call, inverted, cim>>

\* the writer's RemoveDocument(oldDocID)
UpdateRemove ==
    /\ txn.pc = "indexed"
    /\ coll' = [coll EXCEPT !.fullTextIndex =
                    RemoveDocument(@, generateDocumentID(PrimaryKey(txn.old)))]
    /\ txn' = [txn EXCEPT !.pc = "removed"]
    /\ UNCHANGED <<im, live, rows, last, crashed, handles, observed, db, mu, pc, call, inverted, cim>>

\* the writer's AddDocument(newDocID, content), then the return that unlocks c.mu
UpdateAdd ==
    /\ txn.pc = "removed"
    /\ \E content \in {extractFullTextContent(coll, txn.new)} :
          coll' = [coll EXCEPT !.fullTextIndex =
                      IF content # <<>>
                      THEN AddDocument(@, generateDocumentID(PrimaryKey(txn.new)), content)
                      ELSE @]
    /\ rows' = {q \in rows : PrimaryKey(q) # PrimaryKey(txn.old)} \cup {txn.new}
    /\ last' = Op("Update", PrimaryKey(txn.old), txn.old, txn.new, "ok")
    /\ txn' = NoTxn
    /\ UNCHANGED <<im, live, crashed, handles, observed, db, mu, pc, call, inverted, cim>>

\* Insert and Delete hold c.mu throughout and enter idx.mu once
WriterInsert == txn.pc = "idle" /\ CInsert

WriterDelete == txn.pc = "idle" /\ CDelete

\* the reader's SearchFullText: the posting lists it reads enter the cache
ReaderSearchFullText ==
    \E query \in Queries :
        /\ ~crashed
        /\ \E r \in {SearchFullText(coll, query)} :
              /\ coll' = [coll EXCEPT !.fullTextIndex = r.idx]
              /\ observed' = [query |-> query, result |-> Result(r),
                               during |-> txn.pc # "idle"]
              /\ UNCHANGED <<im, live, rows, last, crashed, handles, txn, db, mu, pc, call, inverted, cim>>

NextConc ==
    WriterInsert \/ WriterDelete \/ UpdateBegin \/ UpdateRemove \/ UpdateAdd
        \/ ReaderSearchFullText

SpecConc == InitArticles /\ [][NextConc]_vars

-----------------------------------------------------------------------------
(* Database.  db.base tells whether the base directory exists, db.dirs names  *)
(* the collection directories in it, db.schemas maps a collection name to the *)
(* content of its schema.json, db.collections is the key set of the map of    *)
(* cached collections, db.ids counts the identifiers uuid.New has drawn.      *)
(* filepath.Join(basePath, "") is basePath: the directory of the name "" is   *)
(* the base directory.                                                        *)

MaxThreads == 2      \* threads that call the Database
MaxCreate == 2       \* collections created

Threads == 1..MaxThreads

CollectionNames == {"", "a"}

\* the second clustered index of a schema that declares two
ClusteredDef2 ==
    [Name |-> "pk2", IsClustered |-> TRUE, Keys |-> <<"name">>, Includes |-> <<>>,
     PageSize |-> PageSize]

\* the schemas callers pass: any name, one clustered index or two, any identifier
SchemaOf(name, id, clustered) ==
    [Name |-> name, ID |-> id, Columns |-> <<>>,
     Indexes |-> IF clustered = 1 THEN <<ClusteredDef>> ELSE <<ClusteredDef, ClusteredDef2>>,
     EnableFullText |-> FALSE]
NoSchema == SchemaOf("", 0, 1)
NewSchemas == {SchemaOf(name, 0, k) : name \in CollectionNames, k \in {1, 2}}
UpdatedSchemas == {SchemaOf(name, id, 1) : name \in CollectionNames, id \in 1..MaxCreate}

DirectoryExists(d, name) == IF name = "" THEN d.base ELSE name \in d.dirs

\* os.MkdirAll creates the base directory as well
CreateDirectory(d, name) ==
    [d EXCEPT !.base = TRUE, !.dirs = IF name = "" THEN @ ELSE @ \cup {name}]

\* os.RemoveAll: the directory with all it holds
DeleteDirectory(d, name) ==
    IF name = "" THEN [d EXCEPT !.base = FALSE, !.dirs = {}, !.schemas = NoFiles]
    ELSE [d EXCEPT !.dirs = @ \ {name}, !.schemas = [n \in DOMAIN @ \ {name} |-> @[n]]]

\* FileExists(collectionPath, "schema.json")
SchemaFileExists(d, name) == name \in DOMAIN d.schemas

WriteSchemaFile(d, name, schema) == [d EXCEPT !.schemas = Put(@, name, schema)]

ClusteredCount(schema) ==
    Cardinality({i \in DOMAIN schema.Indexes : schema.Indexes[i].IsClustered})

validateSchema(schema) ==
    IF schema.Name = "" THEN "invalid"
    ELSE IF ClusteredCount(schema) > 1 THEN "invalid"
    ELSE "ok"

\* the body of CreateCollection, under db.mu.Lock
CreateCollection(d, schema) ==
    IF DirectoryExists(d, schema.Name) THEN [db |-> d, err |-> "exists"]
    ELSE Bind(CreateDirectory(d, schema.Name), LAMBDA d1 :
        IF validateSchema(schema) # "ok"
        THEN [db |-> DeleteDirectory(d1, schema.Name), err |-> validateSchema(schema)]
        ELSE Bind([schema EXCEPT !.ID = d.ids + 1], LAMBDA created :
            [db |-> [WriteSchemaFile(d1, schema.Name, created) EXCEPT
                        !.ids = d.ids + 1,
                        !.collections = @ \cup {schema.Name}],
             err |-> "ok"]))

\* the body of DeleteCollection, under db.mu.Lock
DeleteCollection(d, name) ==
    IF ~DirectoryExists(d, name) THEN [db |-> d, err |-> "notexist"]
    ELSE [db |-> DeleteDirectory(d, name), err |-> "ok"]

\* the body of GetCollectionSchema, under db.mu.RLock
GetCollectionSchema(d, name) ==
    IF ~SchemaFileExists(d, name) THEN [schema |-> NoSchema, err |-> "notexist"]
    ELSE [schema |-> d.schemas[name], err |-> "ok"]

\* UpdateCollectionSchema once GetCollectionSchema has returned g
UpdateCollectionSchema(d, name, updatedSchema, g) ==
    IF g.err # "ok" THEN [db |-> d, err |-> g.err]
    ELSE IF g.schema.Name # updatedSchema.Name \/ g.schema.ID # updatedSchema.ID
    THEN [db |-> d, err |-> "invalid"]
    ELSE [db |-> WriteSchemaFile(d, name, updatedSchema), err |-> "ok"]

-----------------------------------------------------------------------------
(* db.mu is a sync.RWMutex.  Lock first takes the writer mutex, from when on  *)
(* RLock blocks, then waits until every reader has left; RLock blocks while   *)
(* a writer holds or waits for the lock and does not look at who holds read   *)
(* locks, the calling thread included.  mu.w is the thread that has the       *)
(* writer mutex (0 if none), mu.locked tells whether it has the lock, mu.r    *)
(* counts the read locks of each thread.                                      *)

FreeLock == [w |-> 0, locked |-> FALSE, r |-> [t \in Threads |-> 0]]

CanRLock(m) == m.w = 0
RLock(m, t) == [m EXCEPT !.r[t] = @ + 1]
RUnlock(m, t) == [m EXCEPT !.r[t] = @ - 1]
CanAnnounce(m) == m.w = 0
Announce(m, t) == [m EXCEPT !.w = t]
CanLock(m, t) == m.w = t /\ ~m.locked /\ \A u \in Threads : m.r[u] = 0
Lock(m, t) == [m EXCEPT !.locked = TRUE]
Unlock(m, t) == [m EXCEPT !.w = 0, !.locked = FALSE]

\* a thread between two Database calls, and what its last call returned
Idle(op, err) == [op |-> op, at |-> "idle", name |-> "", schema |-> NoSchema, err |-> err]
Calling(op, at, name, schema) ==
    [op |-> op, at |-> at, name |-> name, schema |-> schema, err |-> "ok"]

InitDatabase ==
    /\ im = NewIndexManager(ClusteredDef, EmptyStorage, NoMeta, 0)
    /\ live = EmptyLive(ClusteredDef)
    /\ coll = NewCollection(ProductSchema, EmptyDisk(ProductSchema))
    /\ rows = {}
    /\ last = Op("none", NilKey, NoRow, NoRow, "ok")
    /\ crashed = FALSE
    /\ OneIndex /\ NoFunction
    /\ db = [NoDatabase EXCEPT !.base = TRUE]
    /\ mu = FreeLock
    /\ pc = [t \in Threads |-> Idle("none", "ok")]

besidesDatabase ==
    <<im, live, coll, rows, last, crashed, handles, txn, observed, call, inverted, cim>>

\* a thread calls CreateCollection, DeleteCollection or UpdateCollectionSchema: the
\* first line is db.mu.Lock()
BeginCreateCollection(t) ==
    \E schema \in NewSchemas :
        /\ pc[t].at = "idle" /\ db.ids < MaxCreate
        /\ pc' = [pc EXCEPT ![t] = Calling("CreateCollection", "Lock", schema.Name, schema)]
        /\ UNCHANGED <<db, mu, besidesDatabase>>

BeginDeleteCollection(t) ==
    \E name \in CollectionNames :
        /\ pc[t].at = "idle"
        /\ pc' = [pc EXCEPT ![t] = Calling("DeleteCollection", "Lock", name, NoSchema)]
        /\ UNCHANGED <<db, mu, besidesDatabase>>

BeginUpdateCollectionSchema(t) ==
    \E name \in CollectionNames, schema \in UpdatedSchemas :
        /\ pc[t].at = "idle"
        /\ pc' = [pc EXCEPT ![t] = Calling("UpdateCollectionSchema", "Lock", name, schema)]
        /\ UNCHANGED <<db, mu, besidesDatabase>>

\* a thread calls GetCollectionSchema or GetCollection: the first line is db.mu.RLock()
BeginGetCollectionSchema(t) ==
    \E name \in CollectionNames :
        /\ pc[t].at = "idle"
        /\ pc' = [pc EXCEPT ![t] = Calling("GetCollectionSchema", "RLock", name, NoSchema)]
        /\ UNCHANGED <<db, mu, besidesDatabase>>

BeginGetCollection(t) ==
    \E name \in CollectionNames :
        /\ pc[t].at = "idle"
        /\ pc' = [pc EXCEPT ![t] = Calling("GetCollection", "RLockOuter", name, NoSchema)]
        /\ UNCHANGED <<db, mu, besidesDatabase>>

\* Lock(): the writer mutex, then the wait for the readers; UpdateCollectionSchema
\* goes on to call GetCollectionSchema, the others to their body
LockAnnounce(t) ==
    /\ pc[t].at = "Lock" /\ CanAnnounce(mu)
    /\ mu' = Announce(mu, t)
    /\ pc' = [pc EXCEPT ![t].at = "LockWait"]
    /\ UNCHANGED <<db, besidesDatabase>>

LockAcquire(t) ==
    /\ pc[t].at = "LockWait" /\ CanLock(mu, t)
    /\ mu' = Lock(mu, t)
    /\ pc' = [pc EXCEPT ![t].at = IF pc[t].op = "UpdateCollectionSchema" THEN "RLock"
                                  ELSE "body"]
    /\ UNCHANGED <<db, besidesDatabase>>

\* RLock(): of GetCollection, which goes on to call GetCollectionSchema, or of
\* GetCollectionSchema, whoever called it
RLockAcquire(t) ==
    /\ pc[t].at \in {"RLockOuter", "RLock"} /\ CanRLock(mu)
    /\ mu' = RLock(mu, t)
    /\ pc' = [pc EXCEPT ![t].at = IF pc[t].at = "RLockOuter" THEN "RLock" ELSE "schema"]
    /\ UNCHANGED <<db, besidesDatabase>>

CreateCollectionBody(t) ==
    /\ pc[t].at = "body" /\ pc[t].op = "CreateCollection"
    /\ \E r \in {CreateCollection(db, pc[t].schema)} :
          /\ db' = r.db
          /\ pc' = [pc EXCEPT ![t] = Idle(pc[t].op, r.err)]
    /\ mu' = Unlock(mu, t)
    /\ UNCHANGED besidesDatabase

DeleteCollectionBody(t) ==
    /\ pc[t].at = "body" /\ pc[t].op = "DeleteCollection"
    /\ \E r \in {DeleteCollection(db, pc[t].name)} :
          /\ db' = r.db
          /\ pc' = [pc EXCEPT ![t] = Idle(pc[t].op, r.err)]
    /\ mu' = Unlock(mu, t)
    /\ UNCHANGED besidesDatabase

\* GetCollectionSchema reads the schema file and returns (RUnlock); its caller goes
\* on: GetCollection builds the Collection and returns (RUnlock), and
\* UpdateCollectionSchema rewrites the schema file and returns (Unlock)
GetCollectionSchemaBody(t) ==
    /\ pc[t].at = "schema"
    /\ \E g \in {GetCollectionSchema(db, pc[t].name)} :
          CASE pc[t].op = "GetCollectionSchema" ->
                  /\ mu' = RUnlock(mu, t)
                  /\ db' = db
                  /\ pc' = [pc EXCEPT ![t] = Idle(pc[t].op, g.err)]
            [] pc[t].op = "GetCollection" ->
                  /\ mu' = RUnlock(RUnlock(mu, t), t)
                  /\ db' = db
                  /\ pc' = [pc EXCEPT ![t] = Idle(pc[t].op, g.err)]
            [] pc[t].op = "UpdateCollectionSchema" ->
                  \E r \in {UpdateCollectionSchema(db, pc[t].name, pc[t].schema, g)} :
                      /\ mu' = Unlock(RUnlock(mu, t), t)
                      /\ db' = r.db
                      /\ pc' = [pc EXCEPT ![t] = Idle(pc[t].op, r.err)]
    /\ UNCHANGED besidesDatabase

\* the steps of a thread inside a Database operation
Continue(t) ==
    \/ LockAnnounce(t) \/ LockAcquire(t) \/ RLockAcquire(t)
    \/ CreateCollectionBody(t) \/ DeleteCollectionBody(t) \/ GetCollectionSchemaBody(t)

\* callers of CreateCollection, DeleteCollection, GetCollection, GetCollectionSchema
NextDatabase ==
    \E t \in Threads :
        \/ BeginCreateCollection(t) \/ BeginDeleteCollection(t)
        \/ BeginGetCollectionSchema(t) \/ BeginGetCollection(t)
        \/ Continue(t)

SpecDatabase == InitDatabase /\ [][NextDatabase]_vars

\* callers of CreateCollection, DeleteCollection, GetCollectionSchema and
\* UpdateCollectionSchema; a thread inside an operation takes its next step when it
\* can, and a thread that calls Lock or RLock is not overtaken for ever
NextSchema ==
    \E t \in Threads :
        \/ BeginCreateCollection(t) \/ BeginDeleteCollection(t)
        \/ BeginGetCollectionSchema(t) \/ BeginUpdateCollectionSchema(t)
        \/ Continue(t)

FairSpecSchema ==
    InitDatabase /\ [][NextSchema]_vars /\ \A t \in Threads : SF_vars(Continue(t))

-----------------------------------------------------------------------------
(* Tokenizer calls.  NGram is a pure function: every input of up to MaxLen runes
   over Runes and every size from -1 to MaxGram is a first state, and the call
   records its result. *)

MaxLen == 3
MaxGram == 3

\* two Han characters, "A", "t" and "o" ("a" and "to" are stop words), a space and
\* "+", which is neither a letter, a digit, a space nor punctuation
Runes == {20013, 25991, 65, 116, 111, 32, 43}

RECURSIVE Strings(_)
Strings(len) ==
    IF len = 0 THEN {<<>>}
    ELSE Strings(len - 1) \cup {Append(s, r) : s \in {x \in Strings(len - 1) : Len(x) = len - 1},
                                                r \in Runes}

Sizes == (0 - 1)..MaxGram

InitNGram ==
    /\ im = NewIndexManager(ClusteredDef, EmptyStorage, NoMeta, 0)
    /\ live = EmptyLive(ClusteredDef)
    /\ coll = NewCollection(ProductSchema, EmptyDisk(ProductSchema))
    /\ rows = {}
    /\ last = Op("none", NilKey, NoRow, NoRow, "ok")
    /\ crashed = FALSE
    /\ OneIndex /\ OneThread
    /\ inverted = NoInverted
    /\ cim = NoCim
    /\ \E input \in Strings(MaxLen), n \in Sizes :
           call = [fn |-> "none", input |-> input, n |-> n, result |-> <<>>]

besidesCall ==
    <<im, live, coll, rows, last, crashed, handles, txn, observed, db, mu, pc, inverted, cim>>

CallExtractWords ==
    /\ call.fn = "none"
    /\ call' = [call EXCEPT !.fn = "extractWords", !.result = extractWords(call.input)]
    /\ UNCHANGED besidesCall

CallNGram ==
    /\ call.fn = "none"
    /\ call' = [call EXCEPT !.fn = "NGram", !.result = NGram(call.input, call.n)]
    /\ UNCHANGED besidesCall

NextNGram == CallExtractWords \/ CallNGram

SpecNGram == InitNGram /\ [][NextNGram]_vars

-----------------------------------------------------------------------------
(* An inverted index on its own.  One process adds, removes and searches
   documents through an InvertedIndex, drops it and makes a new one on the same
   directory, up to MaxOpen instances in all. *)

MaxOpen == 2

\* document ids "1" and "2"; texts "go", "中文" and "go 中文"
DocIDs == {<<49>>, <<50>>}
Texts == {<<103, 111>>, <<20013, 25991>>, <<103, 111, 32, 20013, 25991>>}

InitInverted ==
    /\ im = NewIndexManager(ClusteredDef, EmptyStorage, NoMeta, 0)
    /\ live = EmptyLive(ClusteredDef)
    /\ coll = NewCollection(ProductSchema, EmptyDisk(ProductSchema))
    /\ rows = {}
    /\ last = Op("none", NilKey, NoRow, NoRow, "ok")
    /\ crashed = FALSE
    /\ OneIndex /\ OneThread
    /\ call = NoCall
    /\ inverted = [NoInverted EXCEPT !.opened = 1]
    /\ cim = NoCim

besidesInverted ==
    <<im, live, coll, rows, last, crashed, handles, txn, observed, db, mu, pc, call, cim>>

TNewInvertedIndex ==
    /\ inverted.opened < MaxOpen
    /\ inverted' = [idx |-> NewInvertedIndex(inverted.idx.files, 3),
                    opened |-> inverted.opened + 1,
                    fn |-> "NewInvertedIndex", docID |-> <<>>, text |-> <<>>]
    /\ UNCHANGED besidesInverted

TAddDocument ==
    \E docID \in DocIDs, text \in Texts :
        /\ inverted' = [inverted EXCEPT !.idx = AddDocument(@, docID, text),
                                        !.fn = "AddDocument",
                                        !.docID = docID, !.text = text]
        /\ UNCHANGED besidesInverted

TRemoveDocument ==
    \E docID \in DocIDs :
        /\ inverted' = [inverted EXCEPT !.idx = RemoveDocument(@, docID),
                                        !.fn = "RemoveDocument",
                                        !.docID = docID, !.text = <<>>]
        /\ UNCHANGED besidesInverted

\* a search loads the posting lists it reads into the cache
TSearch ==
    \E query \in Texts :
        /\ inverted' = [inverted EXCEPT !.idx = InvertedIndexSearch(@, query).idx,
                                        !.fn = "Search",
                                        !.docID = <<>>, !.text = query]
        /\ UNCHANGED besidesInverted

NextInverted == TNewInvertedIndex \/ TAddDocument \/ TRemoveDocument \/ TSearch

SpecInverted == InitInverted /\ [][NextInverted]_vars

-----------------------------------------------------------------------------
(* One index handle whose caller stops at the first operation that fails: every
   state with last.err = "ok" is the state after a sequence of successful Build,
   Insert, Update and Delete calls.  Update is given the rows callers insert. *)

OkBuild == Running /\ IMBuild
OkInsert == Running /\ IMInsert
OkUpdate == Running /\ IMRekey
OkDelete == Running /\ IMDelete

NextOk == OkBuild \/ OkInsert \/ OkUpdate \/ OkDelete

SpecOk == Init /\ [][NextOk]_vars

-----------------------------------------------------------------------------
(* A ClusteredIndexManager on its own.  One caller builds the index from up to
   MaxRows rows with pairwise distinct ids in any order, scans it, validates it
   and closes it. *)

CimRows == {[id |-> IntV(i), name |-> StrV(<<65>>)] : i \in 1..MaxRows}
CimOrders(n) == {s \in [1..n -> 1..MaxRows] : \A i, j \in 1..n : i # j => s[i] # s[j]}
CimInputs ==
    {[i \in DOMAIN s |-> [id |-> IntV(s[i]), name |-> StrV(<<65>>)]] :
        s \in UNION {CimOrders(n) : n \in 0..MaxRows}}

InitCim ==
    /\ im = NewIndexManager(ClusteredDef, EmptyStorage, NoMeta, 0)
    /\ live = EmptyLive(ClusteredDef)
    /\ coll = NewCollection(ProductSchema, EmptyDisk(ProductSchema))
    /\ rows = {}
    /\ last = Op("none", NilKey, NoRow, NoRow, "ok")
    /\ crashed = FALSE
    /\ OneIndex /\ OneThread /\ NoFunction

besidesCim ==
    <<im, live, coll, rows, last, crashed, handles, txn, observed, db, mu, pc, call,
      inverted>>

MBuildIndex ==
    \E data \in CimInputs :
        LET r == BuildIndex(cim.mgr, data)
        IN /\ cim' = [mgr |-> r.c, fn |-> "BuildIndex", data |-> data, built |-> r.err,
                      res |-> <<>>, err |-> r.err]
           /\ UNCHANGED besidesCim

\* a scan loads the nodes it reads into the cache
MSearch ==
    LET r == cimSearch(cim.mgr)
    IN /\ cim' = [cim EXCEPT !.mgr = r.c, !.fn = "Search", !.res = r.res, !.err = r.err]
       /\ UNCHANGED besidesCim

MValidate ==
    LET r == Validate(cim.mgr)
    IN /\ cim' = [cim EXCEPT !.mgr = r.c, !.fn = "Validate", !.res = <<>>, !.err = r.err]
       /\ UNCHANGED besidesCim

MClose ==
    /\ cim' = [cim EXCEPT !.mgr = Close(cim.mgr), !.fn = "Close", !.res = <<>>,
                          !.err = "ok"]
    /\ UNCHANGED besidesCim

NextCim == MBuildIndex \/ MSearch \/ MValidate \/ MClose

SpecCim == InitCim /\ [][NextCim]_vars

-----------------------------------------------------------------------------
(* A clustered index with enough keys for the root to fill: with page size 3 the
   fifth key inserted in ascending order splits a fourth leaf off, and the root
   over the leaves then holds three keys.  Callers insert and delete the ids
   1..MaxDeepKey; what they expect to be stored is not recorded. *)

MaxDeepKey == 5      \* integer key values 1..MaxDeepKey
MaxDeepNodes == 8    \* node files the index directory holds

DeepRows == {BuildRow(i) : i \in 1..MaxDeepKey}
DeepKeys == {extractIndexKey(row, ClusteredDef) : row \in DeepRows}

InitDeep ==
    /\ im = NewIndexManager(ClusteredDef, EmptyStorage, NoMeta, 0)
    /\ live = EmptyLive(ClusteredDef)
    /\ coll = NewCollection(ProductSchema, EmptyDisk(ProductSchema))
    /\ rows = {}
    /\ last = Op("none", NilKey, NoRow, NoRow, "ok")
    /\ crashed = FALSE
    /\ OneIndex /\ OneThread /\ NoFunction

DeepInsert ==
    \E row \in DeepRows, key \in DeepKeys :
        /\ key = extractIndexKey(row, im.indexDef)
        /\ ~crashed
        /\ \E r \in {IndexManagerInsert(im, key, row)} :
           \E m \in {Normalize(r.im)} :
              /\ m.bTree.ids <= MaxDeepNodes
              /\ im' = m
              /\ crashed' = (r.err = "panic")
              /\ last' = Op("Insert", key, NoRow, row, r.err)
              /\ UNCHANGED <<live, coll, rows, elsewhere>>

DeepDelete ==
    \E key \in DeepKeys :
        /\ ~crashed
        /\ \E r \in {IndexManagerDelete(im, key)} :
              /\ im' = Normalize(r.im)
              /\ crashed' = (r.err = "panic")
              /\ last' = Op("Delete", key, NoRow, NoRow, r.err)
              /\ UNCHANGED <<live, coll, rows, elsewhere>>

NextDeep == DeepInsert \/ DeepDelete

SpecDeep == InitDeep /\ [][NextDeep]_vars

-----------------------------------------------------------------------------
(* Properties *)

\* what a caller reads back for the stored values vs: each value as its file holds it
ReadBack(vs) == [i \in DOMAIN vs |-> JSONRow(vs[i])]

\* the two sequences hold the same elements the same number of times
SameBag(s, t) ==
    \A x \in Range(s) \cup Range(t) :
        Cardinality({i \in DOMAIN s : s[i] = x}) = Cardinality({i \in DOMAIN t : t[i] = x})

\* the full scan of an index and the keys of the values it returns
Scan(m) == IndexManagerSearch(m, NilKey).res
ScanKeys(m) == [i \in DOMAIN Scan(m) |-> extractIndexKey(Scan(m)[i], m.indexDef)]

\* every live value of the ghost state, key by key
RECURSIVE LiveValues(_, _)
LiveValues(l, S) ==
    IF S = {} THEN <<>>
    ELSE LET k == CHOOSE x \in S : TRUE IN l[k] \o LiveValues(l, S \ {k})

\* C1: on the clustered index, while Insert and Delete are the only operations, a key
\* whose record was inserted successfully and not touched since is found, and Find
\* returns the one-element list holding that record.
C1_RoundTripOriginal ==
    ~crashed =>
        \A k \in DOMAIN live :
            Len(live[k]) = 1 =>
                IndexManagerSearch(im, k) = [res |-> ReadBack(live[k]), err |-> "ok"]

\* C2: a Collection.Insert whose key is the key of a live record fails with
\* duplicate-key and leaves the clustered index, the secondary indexes and the inverted
\* index as they were, and Find on the key still returns exactly the live record.
C2_DuplicateInsertOriginal ==
    [][\A q \in rows :
          (last'.op = "Insert" /\ last'.key = PrimaryKey(q)) =>
              /\ last'.err = "duplicate"
              /\ coll' = coll
              /\ Find(coll', last'.key) = [res |-> ReadBack(<<q>>), err |-> "ok"]]_vars

\* C3: in a tree reached by Insert and Delete, Delete(k) returns success, after it
\* Search(k) is empty and the full scan holds no value whose key equals k, and a second
\* Delete(k) returns success and changes nothing.
C3_DeleteIdempotentOriginal ==
    (last.op = "Delete" /\ ~crashed) =>
        /\ last.err = "ok"
        /\ IndexManagerSearch(im, last.key) = [res |-> <<>>, err |-> "ok"]
        /\ \A i \in DOMAIN ScanKeys(im) : compareKeys(ScanKeys(im)[i], last.key) # 0
        /\ IndexManagerDelete(im, last.key).err = "ok"
        /\ Normalize(IndexManagerDelete(im, last.key).im) = im

\* C4: in a tree reached by successful Build, Insert and Delete operations, Search(nil)
\* returns every live value exactly once, in non-decreasing key order.
C4_FullScanOriginal ==
    ~crashed =>
        /\ IndexManagerSearch(im, NilKey).err = "ok"
        /\ SameBag(Scan(im), ReadBack(LiveValues(live, DOMAIN live)))
        /\ \A i \in 1..(Len(ScanKeys(im)) - 1) :
               compareKeys(ScanKeys(im)[i], ScanKeys(im)[i + 1]) <= 0

\* C5: in a non-unique tree, Search(k) returns all the values inserted with a key equal
\* to k and not deleted, also when the equal keys span more than one leaf.
C5_SearchAllEqualOriginal ==
    (~crashed /\ ~im.bTree.isUniqueKey) =>
        \A k \in DOMAIN live :
            /\ IndexManagerSearch(im, k).err = "ok"
            /\ SameBag(IndexManagerSearch(im, k).res, ReadBack(live[k]))

\* the projections a secondary index must hold for the records of the clustered index
Projections(c, m) ==
    [i \in DOMAIN Scan(c.clusteredIndex) |->
        extractNonClusteredValue(Scan(c.clusteredIndex)[i], m.indexDef)]

\* C6: after every successful Collection.Insert, Update or Delete, each secondary index
\* holds exactly one entry, the projection, per record of the clustered index and no
\* other entry.
C6_SecondaryConsistentOriginal ==
    (last.op \in {"Insert", "Update", "Delete"} /\ last.err = "ok") =>
        \A i \in DOMAIN coll.nonClusteredIndexes :
            SameBag(Scan(coll.nonClusteredIndexes[i]),
                    Projections(coll, coll.nonClusteredIndexes[i]))

\* the tree holds a pair whose key equals key
Present(m, key) == \E i \in DOMAIN ScanKeys(m) : compareKeys(ScanKeys(m)[i], key) = 0

\* C7: BTree.Update(k, v) on a unique tree succeeds when k is present, and Search(k)
\* then returns exactly [v]; it fails with key-not-found when k is absent and with
\* not-supported on a non-unique tree, and a failed Update leaves the tree unchanged.
C7_UpdateOriginal ==
    [][(last'.op = "Update" /\ last'.key = extractIndexKey(last'.row, im.indexDef)) =>
          IF ~im.bTree.isUniqueKey THEN last'.err = "unsupported" /\ im' = im
          ELSE IF Present(im, last'.key)
          THEN /\ last'.err = "ok"
               /\ IndexManagerSearch(im', last'.key)
                      = [res |-> ReadBack(<<last'.row>>), err |-> "ok"]
          ELSE last'.err \in {"notfound", "empty"} /\ im' = im]_vars

SecondaryKey(row) == extractIndexKey(row, SecondaryDef)

\* the entries of the secondary index under the secondary key of keyRow that belong to
\* the record with the id of row
EntriesFor(c, keyRow, row) ==
    LET res == FindByIndex(c, SecondaryDef.Name, SecondaryKey(keyRow)).res
    IN {i \in DOMAIN res : res[i].id = JSONScalar(row.id)}

\* C8: Collection.Update(old, new) succeeds when old and new have the same secondary
\* key and differ only in other fields, and the secondary index then holds the
\* projection of new.
C8_UpdateSameSecondaryKeyOriginal ==
    (last.op = "Update" /\ SecondaryKey(last.old) = SecondaryKey(last.row)
                       /\ PrimaryKey(last.old) = PrimaryKey(last.row)) =>
        /\ last.err = "ok"
        /\ \E i \in DOMAIN FindByIndex(coll, SecondaryDef.Name, SecondaryKey(last.row)).res :
               FindByIndex(coll, SecondaryDef.Name, SecondaryKey(last.row)).res[i]
                   = JSONRow(extractNonClusteredValue(last.row, SecondaryDef))

\* C9: after a successful Collection.Update(old, new) that changes the secondary key
\* from X to Y, FindByIndex(X) returns no entry for the updated record and
\* FindByIndex(Y) returns exactly one.
C9_UpdateMovesSecondaryEntryOriginal ==
    (last.op = "Update" /\ last.err = "ok"
                       /\ SecondaryKey(last.old) # SecondaryKey(last.row)) =>
        /\ EntriesFor(coll, last.old, last.row) = {}
        /\ Cardinality(EntriesFor(coll, last.row, last.row)) = 1

\* C10: after a successful Insert(r) into a collection with full text, SearchFullText(g)
\* returns the document id of r for every n-gram g the tokenizer extracts from the
\* full-text columns of r.
C10_FullTextFindsEveryNGramOriginal ==
    (coll.Schema.EnableFullText /\ last.op = "Insert" /\ last.err = "ok") =>
        \A g \in Range(NGram(ToLower(extractFullTextContent(coll, last.row)),
                             coll.fullTextIndex.ngramSize)) :
            /\ SearchFullText(coll, g).found
            /\ generateDocumentID(last.key) \in DOMAIN SearchFullText(coll, g).docScores

\* C11: after a successful Delete(r) on a collection with full text, whether or not
\* the handle was reopened since r was inserted, no SearchFullText query returns the
\* document id of r.
C11_DeleteRemovesDocumentOriginal ==
    (coll.Schema.EnableFullText /\ last.op = "Delete" /\ last.err = "ok") =>
        \A q \in Queries :
            generateDocumentID(last.key) \notin DOMAIN SearchFullText(coll, q).docScores

\* C12: every record a successful Insert wrote, through either handle of the
\* collection, is returned by Find through a handle opened afterwards.
C12_NoInsertLostOriginal ==
    ~crashed =>
        \A q \in rows :
            Find(GetCollection(handles), PrimaryKey(q)) = [res |-> ReadBack(<<q>>), err |-> "ok"]

\* C13: a SearchFullText that runs while a Collection.Update is in progress returns
\* what it would have returned before the Update began or what it returns after the
\* Update has ended.
C13_ReadSeesPreOrPostStateOriginal ==
    (txn.pc # "idle" /\ observed.during) =>
        observed.result \in {txn.before[observed.query], txn.after[observed.query]}

\* C14: a thread that has called UpdateCollectionSchema returns from it.
C14_UpdateSchemaTerminatesOriginal ==
    \A t \in Threads :
        (pc[t].op = "UpdateCollectionSchema" /\ pc[t].at # "idle") ~> (pc[t].at = "idle")

\* the threads whose release of db.mu the waiting thread t needs
WaitsFor(t) ==
    CASE pc[t].at \in {"Lock", "RLock", "RLockOuter"} -> {u \in Threads : mu.w = u}
      [] pc[t].at = "LockWait" -> {u \in Threads : mu.r[u] > 0}
      [] OTHER -> {}

\* the threads of S that wait for a thread of S
StillWaiting(S) == {t \in S : WaitsFor(t) \cap S # {}}

\* the largest set of threads each of which waits for another one of the set
RECURSIVE WaitingForEver(_)
WaitingForEver(S) == IF StillWaiting(S) = S THEN S ELSE WaitingForEver(StillWaiting(S))

\* C15: while threads call CreateCollection, DeleteCollection, GetCollection and
\* GetCollectionSchema, no thread waits for db.mu for ever.
C15_NoThreadWaitsForEverOriginal == WaitingForEver(Threads) = {}

\* the collection directories, the schema files and the cached collections
Collections(d) == [dirs |-> d.dirs, schemas |-> d.schemas, collections |-> d.collections]

\* C16: CreateCollection for a name whose collection directory exists fails with
\* collection-already-exists, CreateCollection with an empty name or with more than one
\* clustered index fails with invalid-collection, and both leave the collection
\* directories, the schema files and the cached collections as they were.
C16_CreateCollectionRejectsOriginal ==
    [][\A t \in Threads :
          (pc[t].op = "CreateCollection" /\ pc[t].at = "body" /\ pc'[t].at = "idle") =>
              IF pc[t].schema.Name # "" /\ pc[t].schema.Name \in db.dirs
              THEN pc'[t].err = "exists" /\ Collections(db') = Collections(db)
              ELSE (pc[t].schema.Name = "" \/ ClusteredCount(pc[t].schema) > 1) =>
                       (pc'[t].err = "invalid" /\ Collections(db') = Collections(db))]_vars

\* the entries the leaf files of the tree hold: leaf identifier and position
StoredEntries(m) ==
    {<<id, i>> : id \in {x \in DOMAIN m.bTree.st : IsLeaf(m.bTree.st[x])},
                 i \in 1..MaxLive} \cap
    UNION {{<<id, i>> : i \in DOMAIN m.bTree.st[id].Keys} : id \in DOMAIN m.bTree.st}

StoredKey(m, e) == m.bTree.st[e[1]].Keys[e[2]]

Kept(input) ==
    SelectSeq(input, LAMBDA r : IsSpace(r) \/ IsPunct(r) \/ isEnglishChar(r)
                                \/ isChineseChar(r))

\* the maximal runs of Han characters of s from position i on, run being the one open
RECURSIVE HanRunsFrom(_, _, _)
HanRunsFrom(s, i, run) ==
    LET closed == IF run = <<>> THEN <<>> ELSE <<run>>
    IN IF i > Len(s) THEN closed
       ELSE IF isChineseChar(s[i]) THEN HanRunsFrom(s, i + 1, Append(run, s[i]))
       ELSE closed \o HanRunsFrom(s, i + 1, <<>>)

\* the overlapping bigrams of a run, the run itself when it is one character
Bigrams(run) ==
    IF Len(run) = 1 THEN <<run>>
    ELSE [i \in 1..(Len(run) - 1) |-> <<run[i], run[i + 1]>>]

RECURSIVE BigramsOfAll(_)
BigramsOfAll(runs) ==
    IF runs = <<>> THEN <<>> ELSE Bigrams(Head(runs)) \o BigramsOfAll(Tail(runs))

\* the words of s between spaces and punctuation, from position i on
RECURSIVE SpacedWordsFrom(_, _, _)
SpacedWordsFrom(s, i, word) ==
    LET closed == IF word = <<>> THEN <<>> ELSE <<word>>
    IN IF i > Len(s) THEN closed
       ELSE IF IsSpace(s[i]) \/ IsPunct(s[i]) THEN closed \o SpacedWordsFrom(s, i + 1, <<>>)
       ELSE SpacedWordsFrom(s, i + 1, Append(word, s[i]))

StopWordsOnly(input) ==
    /\ SpacedWordsFrom(ToLower(input), 1, <<>>) # <<>>
    /\ Range(SpacedWordsFrom(ToLower(input), 1, <<>>)) \subseteq englishStopWords

\* the tokens of a result that are made of Han characters
HanTokens(result) == SelectSeq(result, LAMBDA g : isChineseChar(g[1]))

\* C18: NGram emits every Han token, a maximal run of Han characters, as its
\* overlapping bigrams whatever the size n > 0, a run of one Han character as that
\* character, and returns nothing for n <= 0, for the empty input and for an input of
\* stop words only.
C18_NGramHanBigrams ==
    call.fn = "NGram" =>
        /\ call.n > 0 =>
               HanTokens(call.result) = BigramsOfAll(HanRunsFrom(Kept(call.input), 1, <<>>))
        /\ (call.n <= 0 \/ call.input = <<>> \/ StopWordsOnly(call.input)) =>
               call.result = <<>>

\* NGram("中文中", 3) has returned the two overlapping bigrams
C18_Witness ==
    /\ call.fn = "NGram" /\ call.n = 3
    /\ call.input = <<20013, 25991, 20013>>
    /\ call.result = <<<<20013, 25991>>, <<25991, 20013>>>>

\* the frequency the index holds for a document under a term, 0 when the posting
\* list of the term has no entry for it; and the occurrences of a term in a text
Holds(idx, term, docID) ==
    Bind(getPostingList(idx, term), LAMBDA g :
        IF g.found /\ docID \in DOMAIN g.docs THEN g.docs[docID] ELSE 0)
Occurrences(idx, term, text) ==
    Bind(NGram(ToLower(text), idx.ngramSize), LAMBDA ngrams :
        Cardinality({i \in DOMAIN ngrams : ngrams[i] = term}))

\* the terms of every text
Terms == UNION {Range(NGram(ToLower(t), 3)) : t \in Texts}

\* C19: after AddDocument(d, t) the posting list of every term holds for d the number
\* of occurrences of the term among the n-grams of t, and no entry when that is zero,
\* whatever was indexed for d before, also by an earlier instance on the directory.
C19_AddDocumentExactOriginal ==
    inverted.fn = "AddDocument" =>
        \A term \in Terms :
            Holds(inverted.idx, term, inverted.docID)
                = Occurrences(inverted.idx, term, inverted.text)

\* a new IndexManager on the directory of m, and the root identifier root.meta holds
Reopened(m) == NewIndexManager(m.indexDef, m.bTree.st, m.meta, m.bTree.ids)
PersistedRoot(m) == IF m.meta.exists THEN m.meta.rootID ELSE NoID

\* C20: after a sequence of successful Build, Insert, Update and Delete calls through
\* one handle, root.meta holds the identifier of the tree's current root, and a new
\* IndexManager on the same directory returns for Search(nil) and for Search(k) of
\* every key k what the handle returns.
C20_ReopenedIndexAgrees ==
    (Running /\ last.op # "none") =>
        /\ PersistedRoot(im) = im.bTree.rootID
        /\ IndexManagerSearch(Reopened(im), NilKey) = IndexManagerSearch(im, NilKey)
        /\ \A k \in KeysOf(im.indexDef) :
               IndexManagerSearch(Reopened(im), k) = IndexManagerSearch(im, k)

\* the root is an internal node: a split has replaced the first root, the last call
\* succeeded and the new IndexManager finds a stored key
C20_Witness ==
    /\ Running /\ last.op \in {"Insert", "Update", "Delete", "Build"}
    /\ im.bTree.rootID # NoID /\ ~IsLeaf(im.bTree.st[im.bTree.rootID])
    /\ \E k \in KeysOf(im.indexDef) : IndexManagerSearch(Reopened(im), k).res # <<>>

\* Search(nil) on m returns the values of l, each once, in ascending key order
FullScanIs(m, l) ==
    /\ IndexManagerSearch(m, NilKey).err = "ok"
    /\ SameBag(Scan(m), ReadBack(LiveValues(l, DOMAIN l)))
    /\ \A i \in 1..(Len(ScanKeys(m)) - 1) :
           compareKeys(ScanKeys(m)[i], ScanKeys(m)[i + 1]) < 0

\* C21: a successful Build of records with pairwise distinct keys, given in any order
\* on a directory in any state, leaves exactly those records: Search(nil) returns them
\* in ascending key order, and so it does after a successful Insert that follows the
\* Build, also when the Insert overflows a leaf.
C21_BuildDiscardsAndSorts ==
    [][/\ (last'.op = "Build" /\ last'.err = "ok") => FullScanIs(im', live')
       /\ (last.op = "Build" /\ last.err = "ok" /\ last'.op = "Insert" /\ last'.err = "ok")
              => FullScanIs(im', live')]_vars

\* a Build of MaxBuild records has succeeded and has split a leaf
C21_Witness ==
    /\ last.op = "Build" /\ last.err = "ok"
    /\ Len(Scan(im)) = MaxBuild
    /\ ~IsLeaf(im.bTree.st[im.bTree.rootID])

\* the first step of the write the caller has made: the clustered index
ClusteredStep(c, op) ==
    CASE op.op = "Insert" -> IndexManagerInsert(c.clusteredIndex, op.key, op.row)
      [] op.op = "Update" -> IndexManagerUpdate(c.clusteredIndex, op.key, op.old,
                                                PrimaryKey(op.row), op.row)
      [] op.op = "Delete" -> IndexManagerDelete(c.clusteredIndex, op.key)

\* C22: a Collection write runs the clustered index, then the secondary indexes, then
\* the inverted index and stops at the first failure.  When the clustered step fails
\* the write returns its error and no secondary index and no posting list is changed;
\* when a later step fails the clustered index holds the write and the inverted index
\* is unchanged.
C22_WriteOrder ==
    [][last'.op \in {"Insert", "Update", "Delete"} =>
          /\ ClusteredStep(coll, last').err # "ok" =>
                 /\ last'.err = ClusteredStep(coll, last').err
                 /\ coll'.nonClusteredIndexes = coll.nonClusteredIndexes
                 /\ coll'.fullTextIndex = coll.fullTextIndex
          /\ (ClusteredStep(coll, last').err = "ok" /\ last'.err # "ok") =>
                 /\ coll'.clusteredIndex = Normalize(ClusteredStep(coll, last').im)
                 /\ coll'.fullTextIndex = coll.fullTextIndex]_vars

\* an Insert of a stored record was refused by the clustered index of a collection
\* whose secondary index and posting lists hold entries
C22_Witness ==
    /\ coll.Schema.Name = "catalog"
    /\ last.op = "Insert" /\ last.err = "duplicate"
    /\ Scan(coll.nonClusteredIndexes[1]) # <<>>
    /\ DOMAIN coll.fullTextIndex.files # {}

\* the nodes of the tree: the root and what child pointers lead to from it
Children(bt, id) ==
    IF id \in DOMAIN bt.st /\ ~IsLeaf(bt.st[id])
    THEN {bt.st[id].Values[i] : i \in DOMAIN bt.st[id].Values} \cap DOMAIN bt.st
    ELSE {}
RECURSIVE TreeFrom(_, _)
TreeFrom(bt, S) ==
    LET T == S \cup UNION {Children(bt, x) : x \in S}
    IN IF T = S THEN S ELSE TreeFrom(bt, T)
TreeNodes(bt) == IF bt.rootID = NoID THEN {} ELSE TreeFrom(bt, {bt.rootID} \cap DOMAIN bt.st)

\* C24: after a completed Insert or Delete every node of the tree but the root holds
\* at least ceil(pageSize / 2) and at most pageSize keys.
C24_NodeFillOriginal ==
    (~crashed /\ last.op \in {"Insert", "Delete"} /\ last.err = "ok") =>
        \A id \in TreeNodes(im.bTree) \ {im.bTree.rootID} :
            /\ Len(im.bTree.st[id].Keys) >= (im.bTree.st[id].PageSize + 1) \div 2
            /\ Len(im.bTree.st[id].Keys) <= im.bTree.st[id].PageSize

\* no node of the tree holds more than pageSize keys
WithinPage(bt) == \A id \in TreeNodes(bt) : Len(bt.st[id].Keys) <= bt.pageSize

\* C25: after a completed Insert no node of the tree, the root included, holds more
\* than pageSize keys.
C25_InsertKeepsPageSizeOriginal ==
    (~crashed /\ last.op = "Insert" /\ last.err = "ok") => WithinPage(im.bTree)

\* C26: every internal node of the tree has exactly one child pointer more than it
\* has keys, in every state Insert and Delete lead to.
C26_KeysPlusOneChildrenOriginal ==
    ~crashed =>
        \A id \in TreeNodes(im.bTree) :
            ~IsLeaf(im.bTree.st[id]) =>
                Len(im.bTree.st[id].Values) = Len(im.bTree.st[id].Keys) + 1

\* the keys stored in the leaves below the node id
KeysUnder(bt, id) ==
    UNION {{bt.st[x].Keys[i] : i \in DOMAIN bt.st[x].Keys} :
              x \in {y \in TreeFrom(bt, {id} \cap DOMAIN bt.st) : IsLeaf(bt.st[y])}}

\* every key below the i-th child of node lies between the separators around it
WithinSeparators(bt, node, i) ==
    \A k \in KeysUnder(bt, node.Values[i]) :
        /\ i > 1 /\ i - 1 <= Len(node.Keys) => compareKeys(node.Keys[i - 1], k) <= 0
        /\ i <= Len(node.Keys) => compareKeys(k, node.Keys[i]) < 0

\* C27: for each internal node with separators s0 < s1 < ..., every key stored under
\* child i satisfies s(i-1) <= key < s(i), in every state Insert and Delete lead to.
C27_SeparatorBoundsOriginal ==
    ~crashed =>
        \A id \in TreeNodes(im.bTree) :
            ~IsLeaf(im.bTree.st[id]) =>
                \A i \in DOMAIN im.bTree.st[id].Values :
                    WithinSeparators(im.bTree, im.bTree.st[id], i)

\* the child position the descent of an operation takes in an internal node; the
\* full scan takes the first child
ChildPos(op, node, key) ==
    CASE op = "Insert" -> InsertChildPos(node, key)
      [] op = "Search" -> SearchChildPos(node, key)
      [] op = "Delete" -> DeleteChildPos(node, key)
      [] op = "Update" -> UpdateChildPos(node, key)
      [] op = "First" -> 0

\* the leaf the descent of an operation ends in, NoID if it leaves the tree
RECURSIVE LeafFrom(_, _, _, _, _)
LeafFrom(bt, op, id, key, fuel) ==
    IF fuel = 0 \/ id \notin DOMAIN bt.st THEN NoID
    ELSE IF IsLeaf(bt.st[id]) THEN id
    ELSE Bind(ChildPos(op, bt.st[id], key), LAMBDA pos :
            IF pos < 0 \/ pos >= Len(bt.st[id].Values) THEN NoID
            ELSE LeafFrom(bt, op, bt.st[id].Values[pos + 1], key, fuel - 1))
LeafOf(bt, op, key) == LeafFrom(bt, op, bt.rootID, key, bt.ids)

\* C28: for every key, the leaf the Insert descent selects is the leaf the Search,
\* Delete and Update descents select, a key equal to a separator included.
C28_SameLeafOriginal ==
    (~crashed /\ im.bTree.rootID # NoID) =>
        \A key \in KeysOf(im.indexDef) : \A op \in {"Search", "Delete", "Update"} :
            LeafOf(im.bTree, op, key) = LeafOf(im.bTree, "Insert", key)

\* the leaf at the end of the first child pointers below the root
LeftmostLeaf(bt) == LeafFrom(bt, "First", bt.rootID, NilKey, bt.ids)

\* the leaves from id along the next pointers, as far as fuel allows
RECURSIVE ChainFrom(_, _, _)
ChainFrom(bt, id, fuel) ==
    IF fuel = 0 \/ id \notin DOMAIN bt.st THEN <<>>
    ELSE <<id>> \o ChainFrom(bt, bt.st[id].Next, fuel - 1)
Chain(bt) == ChainFrom(bt, LeftmostLeaf(bt), bt.ids + 1)

\* the keys of the leaves of a chain, in chain order
RECURSIVE ChainKeys(_, _)
ChainKeys(bt, chain) ==
    IF chain = <<>> THEN <<>> ELSE bt.st[Head(chain)].Keys \o ChainKeys(bt, Tail(chain))

LeafFiles(bt) == {id \in DOMAIN bt.st : IsLeaf(bt.st[id])}

\* C29: the leaves form a doubly-linked chain: the previous pointer of the next leaf
\* of a leaf names that leaf, the chain from the leftmost child of the root holds
\* every leaf that has a key exactly once, and keys do not decrease along the chain.
C29_LeafChain ==
    (~crashed /\ im.bTree.rootID # NoID) =>
        /\ \A id \in LeafFiles(im.bTree) :
               im.bTree.st[id].Next # NoID =>
                   /\ im.bTree.st[id].Next \in LeafFiles(im.bTree)
                   /\ im.bTree.st[im.bTree.st[id].Next].Previous = id
        /\ \A i, j \in DOMAIN Chain(im.bTree) :
               i # j => Chain(im.bTree)[i] # Chain(im.bTree)[j]
        /\ \A id \in LeafFiles(im.bTree) :
               im.bTree.st[id].Keys # <<>> => id \in Range(Chain(im.bTree))
        /\ \A i \in 1..(Len(ChainKeys(im.bTree, Chain(im.bTree))) - 1) :
               compareKeys(ChainKeys(im.bTree, Chain(im.bTree))[i],
                           ChainKeys(im.bTree, Chain(im.bTree))[i + 1]) <= 0

\* after an Insert the tree has a root over its leaves, and the chain holds three
\* leaves or more: one that a Delete emptied, and two with keys
C29_Witness ==
    /\ ~crashed /\ last.op = "Insert" /\ last.err = "ok"
    /\ ~IsLeaf(im.bTree.st[im.bTree.rootID])
    /\ Len(Chain(im.bTree)) >= 3
    /\ \E i \in DOMAIN Chain(im.bTree) : im.bTree.st[Chain(im.bTree)[i]].Keys = <<>>
    /\ \E i, j \in DOMAIN Chain(im.bTree) :
           /\ i < j
           /\ im.bTree.st[Chain(im.bTree)[i]].Keys # <<>>
           /\ im.bTree.st[Chain(im.bTree)[j]].Keys # <<>>

\* C30: a leaf other than the root that a Delete emptied is unlinked from the leaf
\* chain and from its parent and its file is deleted: no leaf file without a key
\* is left within reach of the tree.
C30_EmptiedLeafRemovedOriginal ==
    (~crashed /\ last.op = "Delete" /\ last.err = "ok") =>
        \A id \in LeafFiles(im.bTree) \ {im.bTree.rootID} : im.bTree.st[id].Keys # <<>>

\* C23: after BuildIndex of rows with pairwise distinct keys, given in any order, a
\* Search with Ascending = true and no bounds returns all the rows in ascending key
\* order, and Validate reports no error.
C23_BuildIndexSortsOriginal ==
    cim.built = "ok" =>
        /\ cim.fn = "Search" =>
               /\ cim.err = "ok"
               /\ SameBag(ReadBack(cim.res), ReadBack(cim.data))
               /\ \A i \in 1..(Len(cim.res) - 1) :
                      compareRowsByIndexKeys(cim.mgr.indexDef, cim.res[i], cim.res[i + 1]) < 0
        /\ cim.fn = "Validate" => cim.err = "ok"

\* C31: after a completed Insert the parent identifier in the file of every node
\* other than the root is the identifier of the node that lists it as a child.
C31_PersistedParentOriginal ==
    (~crashed /\ last.op = "Insert" /\ last.err = "ok") =>
        \A id \in TreeNodes(im.bTree) : \A child \in Children(im.bTree, id) :
            im.bTree.st[child].Parent = id

\* the values of the full scan stored under key, in scan order
ScanFor(m, key) ==
    SelectSeq(Scan(m), LAMBDA v : compareKeys(extractIndexKey(v, m.indexDef), key) = 0)

\* C32: in a non-unique tree the values inserted with equal keys come back from
\* Search(nil) and from Search(k) in the order they were inserted: wherever a search
\* returns the values stored for a key, it returns them first in, first out.
C32_DuplicatesFIFOOriginal ==
    ~crashed =>
        \A key \in KeysOf(im.indexDef) :
            /\ SameBag(ScanFor(im, key), ReadBack(live[key]))
                   => ScanFor(im, key) = ReadBack(live[key])
            /\ SameBag(IndexManagerSearch(im, key).res, ReadBack(live[key]))
                   => IndexManagerSearch(im, key).res = ReadBack(live[key])

-----------------------------------------------------------------------------
(* Search(nil) over any leaf chain.  The directory holds MaxChain leaf files of
   one row each; the next pointer of a leaf is empty, names a leaf of the
   directory (itself included, so chains with cycles occur) or names the file
   MaxChain + 1, which does not exist.  root.meta names any of the leaves. *)

ChainLeaf(id, next) ==
    NodeFile([NewBTreeNode(id, "leaf", PageSize) EXCEPT
                  !.Keys = <<<<IntV(id)>>>>,
                  !.Values = <<[id |-> IntV(id), name |-> StrV(<<65>>)]>>,
                  !.Next = next])

InitChain ==
    /\ \E next \in [1..MaxChain -> 0..(MaxChain + 1)], root \in 1..MaxChain :
           im = NewIndexManager(ClusteredDef, [id \in 1..MaxChain |-> ChainLeaf(id, next[id])],
                                saveRootNodeID(root), MaxChain)
    /\ live = EmptyLive(ClusteredDef)
    /\ coll = NewCollection(ProductSchema, EmptyDisk(ProductSchema))
    /\ rows = {}
    /\ last = Op("none", NilKey, NoRow, NoRow, "ok")
    /\ crashed = FALSE
    /\ OneIndex /\ OneThread
    /\ NoFunction

CallSearch ==
    /\ call.fn = "none"
    /\ call' = [call EXCEPT !.fn = "Search", !.result = Search(im.bTree, NilKey)]
    /\ UNCHANGED besidesCall

NextChain == CallSearch

SpecChain == InitChain /\ [][NextChain]_vars

\* the leaves reached from the leaves of S along next pointers that name a file
RECURSIVE NextClosure(_, _)
NextClosure(st, S) ==
    LET T == S \cup ({st[id].Next : id \in S} \cap DOMAIN st)
    IN IF T = S THEN S ELSE NextClosure(st, T)

\* C33: Search(nil) returns without error for every leaf chain on disk, with cycles
\* and with next pointers that name a missing file: the result holds the values of
\* every leaf reached from the first leaf along existing next pointers, each leaf once.
C33_FullScanAnyChain ==
    call.fn = "Search" =>
        LET reached == NextClosure(im.bTree.st, {im.bTree.rootID})
        IN /\ call.result.err = "ok"
           /\ Range(call.result.res) = {im.bTree.st[id].Values[1] : id \in reached}
           /\ Len(call.result.res) = Cardinality(reached)

\* a scan of a chain of at least two leaves whose next pointers close a cycle
C33_Witness ==
    /\ call.fn = "Search"
    /\ LET reached == NextClosure(im.bTree.st, {im.bTree.rootID})
       IN /\ Cardinality(reached) >= 2
          /\ \A id \in reached : im.bTree.st[id].Next \in reached

\* no key has a live pair
NothingLive == \A key \in DOMAIN live : live[key] = <<>>

-----------------------------------------------------------------------------
(* Filling and draining a clustered index.  Callers insert any of the ids
   1..MaxDeepKey in any order and then delete keys one by one in any order; once
   no pair is left they may insert again. *)

InitFillDrain ==
    /\ im = NewIndexManager(ClusteredDef, EmptyStorage, NoMeta, 0)
    /\ live = [key \in DeepKeys |-> <<>>]
    /\ coll = NewCollection(ProductSchema, EmptyDisk(ProductSchema))
    /\ rows = {}
    /\ last = Op("none", NilKey, NoRow, NoRow, "ok")
    /\ crashed = FALSE
    /\ OneIndex /\ OneThread /\ NoFunction

FillInsert ==
    \E row \in DeepRows, key \in DeepKeys :
        /\ key = extractIndexKey(row, im.indexDef)
        /\ ~crashed
        /\ last.op \in {"none", "Insert"} \/ NothingLive
        /\ \E r \in {IndexManagerInsert(im, key, row)} :
           \E m \in {Normalize(r.im)} :
              /\ m.bTree.ids <= MaxDeepNodes
              /\ im' = m
              /\ crashed' = (r.err = "panic")
              /\ live' = IF r.err = "ok"
                         THEN [live EXCEPT ![key] = Append(@, IndexValue(row, im.indexDef))]
                         ELSE live
              /\ last' = Op("Insert", key, NoRow, row, r.err)
              /\ UNCHANGED <<coll, rows, elsewhere>>

DrainDelete ==
    \E key \in DeepKeys :
        /\ ~crashed
        /\ live[key] # <<>>
        /\ \E r \in {IndexManagerDelete(im, key)} :
              /\ im' = Normalize(r.im)
              /\ crashed' = (r.err = "panic")
              /\ live' = IF r.err = "ok" THEN [live EXCEPT ![key] = <<>>] ELSE live
              /\ last' = Op("Delete", key, NoRow, NoRow, r.err)
              /\ UNCHANGED <<coll, rows, elsewhere>>

NextFillDrain == FillInsert \/ DrainDelete

SpecFillDrain == InitFillDrain /\ [][NextFillDrain]_vars

\* the tree is one leaf that holds the pair of row and nothing else
SingleLeafOf(bt, key, row) ==
    /\ bt.rootID # NoID
    /\ CanLoad(bt.st, bt.rootID)
    /\ IsLeaf(bt.st[bt.rootID])
    /\ bt.st[bt.rootID].Keys = <<JSONKey(key)>>
    /\ bt.st[bt.rootID].Values = <<JSONRow(row)>>

\* C34: once the records inserted into a unique tree have been deleted one by one,
\* in any order, the tree is empty: its root identifier is empty and Search(nil)
\* returns the empty list; the Insert that follows makes a root that is a single
\* leaf holding the new pair only.
C34_EmptyAfterLastDelete ==
    /\ (~crashed /\ last.op = "Delete" /\ last.err = "ok" /\ NothingLive) =>
            /\ im.bTree.rootID = NoID
            /\ Search(im.bTree, NilKey) = [res |-> <<>>, err |-> "ok"]
    /\ (last.op = "Insert" /\ last.err = "ok" /\ SumLen(live, DOMAIN live) = 1) =>
            /\ ~crashed
            /\ SingleLeafOf(im.bTree, last.key, IndexValue(last.row, im.indexDef))

\* the Delete of the last pair has left an empty tree
C34_Witness ==
    /\ ~crashed /\ last.op = "Delete" /\ last.err = "ok"
    /\ NothingLive
    /\ im.meta.exists
    /\ im.bTree.rootID = NoID

-----------------------------------------------------------------------------
(* compareKeys and generateDocumentID on their own.  A caller compares three
   composite keys of one or two components each, or derives the document ids of
   the first two; the components are drawn from two integers, the strings "1",
   "2" and "1_1" and null. *)

Components == {IntV(1), IntV(2), StrV(<<49>>), StrV(<<50>>), StrV(<<49, 95, 49>>), NilV}
CompositeKeys == UNION {[1..n -> Components] : n \in 1..MaxComp}

InitCompare ==
    /\ im = NewIndexManager(ClusteredDef, EmptyStorage, NoMeta, 0)
    /\ live = EmptyLive(ClusteredDef)
    /\ coll = NewCollection(ProductSchema, EmptyDisk(ProductSchema))
    /\ rows = {}
    /\ last = Op("none", NilKey, NoRow, NoRow, "ok")
    /\ crashed = FALSE
    /\ OneIndex /\ OneThread
    /\ inverted = NoInverted
    /\ cim = NoCim
    /\ \E a \in CompositeKeys, b \in CompositeKeys, c \in CompositeKeys :
           call = [fn |-> "none", input |-> [a |-> a, b |-> b, c |-> c], n |-> 0,
                   result |-> <<>>]

CallCompareKeys ==
    /\ call.fn = "none"
    /\ call' = [call EXCEPT !.fn = "compareKeys",
                            !.result = [ab |-> compareKeys(call.input.a, call.input.b),
                                        ba |-> compareKeys(call.input.b, call.input.a),
                                        bc |-> compareKeys(call.input.b, call.input.c),
                                        ac |-> compareKeys(call.input.a, call.input.c)]]
    /\ UNCHANGED besidesCall

CallGenerateDocumentID ==
    /\ call.fn = "none"
    /\ call' = [call EXCEPT !.fn = "generateDocumentID",
                            !.result = [a |-> generateDocumentID(call.input.a),
                                        b |-> generateDocumentID(call.input.b)]]
    /\ UNCHANGED besidesCall

NextCompare == CallCompareKeys \/ CallGenerateDocumentID

SpecCompare == InitCompare /\ [][NextCompare]_vars

Sign(n) == Sign3(n, 0)

\* C35: compareKeys is a total order on composite keys: compare(a, b) has the
\* opposite sign of compare(b, a), a <= b and b <= c give a <= c, a null first
\* component is less than every first component that is not null, and first
\* components of different types, an integer and a string, are never equal.
C35_TotalOrderOriginal ==
    call.fn = "compareKeys" =>
        LET a == call.input.a
            b == call.input.b
            r == call.result
        IN /\ Sign(r.ab) = 0 - Sign(r.ba)
           /\ (r.ab <= 0 /\ r.bc <= 0) => r.ac <= 0
           /\ (a[1] = NilV /\ b[1] # NilV) => r.ab < 0
           /\ (a[1].t = "int" /\ b[1].t = "str") => r.ab # 0

\* the full scan of the index returns a pair under key
Stored(m, key) == \E i \in DOMAIN ScanKeys(m) : compareKeys(ScanKeys(m)[i], key) = 0

\* C36: in every state Inserts and Deletes lead to, an Insert of a key that is not
\* stored returns success: it does not stop on an index out of range, neither in the
\* child list of an internal node nor at the first key of an empty leaf.
C36_InsertOfAbsentKeySucceedsOriginal ==
    [][(last'.op = "Insert" /\ ~Stored(im, last'.key))
          => (last'.err = "ok" /\ ~crashed')]_vars

\* C37: a Collection.Update(old, new) that changes the clustered key and fails with
\* the duplicate key error, the key of new being that of another record of the
\* collection, leaves the collection as it was: Find on the key of old returns old.
C37_FailedRekeyKeepsOldOriginal ==
    (/\ last.op = "Update" /\ last.err = "duplicate"
     /\ PrimaryKey(last.row) # last.key
     /\ last.old \in rows
     /\ \E other \in rows : PrimaryKey(other) = PrimaryKey(last.row)) =>
        Find(coll, last.key) = [res |-> <<JSONRow(last.old)>>, err |-> "ok"]

\* C38: the document id of the full-text index is injective on clustered keys: two
\* keys that differ, in a component with "_" in it or in the type of a component
\* with the same text, never get the same document id.
C38_DocumentIDInjectiveOriginal ==
    (call.fn = "generateDocumentID" /\ call.input.a # call.input.b) =>
        call.result.a # call.result.b

-----------------------------------------------------------------------------
(* A ClusteredIndexManager whose cache is smaller than its tree.  The manager
   is made with a cache of MaxCache nodes in place of the 100 of the constructor,
   so that the trees of the model outgrow it as a tree of more than 100 nodes
   outgrows the cache of the code.  One caller inserts the ids 1..MaxPagedKey and
   closes the manager now and then, and stops at the first error. *)

PagedRows == {BuildRow(i) : i \in 1..MaxPagedKey}
Choices == [1..MaxEvict -> 1..MaxPagedNodes]

InitPaged ==
    /\ im = NewIndexManager(ClusteredDef, EmptyStorage, NoMeta, 0)
    /\ live = EmptyLive(ClusteredDef)
    /\ coll = NewCollection(ProductSchema, EmptyDisk(ProductSchema))
    /\ rows = {}
    /\ last = Op("none", NilKey, NoRow, NoRow, "ok")
    /\ crashed = FALSE
    /\ OneIndex /\ OneThread
    /\ call = NoCall /\ inverted = NoInverted
    /\ cim = [NoCim EXCEPT !.mgr.maxCacheSize = MaxCache, !.res = {}]

besidesPaged ==
    <<im, live, coll, last, crashed, handles, txn, observed, db, mu, pc, call, inverted>>

PInsertRow ==
    \E row \in PagedRows, choices \in Choices :
        LET r == InsertRow(cim.mgr, row, choices)
        IN /\ cim.err = "ok"
           /\ r.c.nextNodeID <= MaxPagedNodes + 1
           /\ cim' = [cim EXCEPT !.mgr = r.c, !.fn = "InsertRow", !.data = <<row>>,
                                 !.res = r.dropped, !.err = r.err]
           /\ rows' = IF r.err = "ok" THEN rows \cup {row} ELSE rows
           /\ UNCHANGED besidesPaged

PClose ==
    /\ cim.err = "ok"
    /\ cim' = [cim EXCEPT !.mgr = Close(cim.mgr), !.fn = "Close", !.data = <<>>,
                          !.res = {}, !.err = "ok"]
    /\ UNCHANGED <<rows, besidesPaged>>

NextPaged == PInsertRow \/ PClose

SpecPaged == InitPaged /\ [][NextPaged]_vars

\* what a scan reads from the node files alone
DiskRows(c) == cimSearch([c EXCEPT !.nodeCache = EmptyStorage])

\* C39: a node changed in memory is not dropped from the cache before it is written:
\* after InsertRow calls that each returned success no dirty node has been evicted
\* and the node files hold every change, so a scan of the files returns every row
\* inserted, also when an operation loads more nodes than the cache holds.
C39_DirtyNodesReachDiskOriginal ==
    (cim.fn = "InsertRow" /\ cim.err = "ok") =>
        /\ cim.res = {}
        /\ DiskRows(cim.mgr).err = "ok"
        /\ Range(DiskRows(cim.mgr).res) = {JSONRow(row) : row \in rows}

====
